---- MODULE Spec2Model ----
(***************************************************************************)
(* Model of the extraction pipeline of the political-ad collectors:        *)
(*   shared/checkpoint_manager.py  CheckpointManager                       *)
(*   shared/output_writer.py       OutputWriter                            *)
(*   shared/rate_limiter.py        RateLimiter                             *)
(*   collectors/base.py            BaseAdCollector.run                     *)
(*   collectors/meta/collector.py  MetaAdCollector.fetch_ads               *)
(*                                                                         *)
(* Four specifications share the variables below:                          *)
(*   SpecCk   the checkpoint store alone (save step by step, load, crash)  *)
(*   SpecW    the output writer alone                                      *)
(*   SpecRL   the rate limiter alone, against a wall clock                 *)
(*   Spec     run() driving fetch_ads, the writer and the checkpoint store *)
(*            over a paginated source, with a crash or interrupt and one   *)
(*            resumed run                                                  *)
(***************************************************************************)
EXTENDS Integers, Sequences, FiniteSets, TLC

VARIABLES
    \* ---- checkpoint store (files survive a crash) ----
    ckFile,      \* the canonical checkpoint file  {platform}_checkpoint.json
    ckTmp,       \* the staging file               {platform}_checkpoint.json.tmp
    ckMode,      \* "local" or "gcs"
    ckClock,     \* datetime.utcnow() as seen by save(): a counter of saves begun
    ckPc,        \* position of the save() in progress: "idle", "writing", "written"
    ckText,      \* json.dump output of the save() in progress
    ckHist,      \* history: what the last save() started from and meant to write
    ckLast       \* outcome of the last CheckpointManager call

ckVars == <<ckFile, ckTmp, ckMode, ckClock, ckPc, ckText, ckHist, ckLast>>

VARIABLES
    \* ---- output writer ----
    w,           \* the OutputWriter object of the running process
    wDisk,       \* the batch files in storage, in the order they were written
    wManifests,  \* the manifest files in storage
    wLast,       \* outcome of the last OutputWriter call
    wFaults,     \* storage failures so far
    wHist        \* history: write_record calls made, and the shape of the call sequence

wVars == <<w, wDisk, wManifests, wLast, wFaults, wHist>>

VARIABLES
    \* ---- rate limiter ----
    rl,          \* the RateLimiter object
    now,         \* time.time(), in clock units
    rlLast,      \* outcome of the last RateLimiter call
    rlHist       \* history: clock steps taken, and whether only wait_if_needed was called

rlVars == <<rl, now, rlLast, rlHist>>

VARIABLES
    \* ---- one extraction: run() driving fetch_ads ----
    src,         \* the source: its pages, and which items fail validation
    config,      \* checkpoint_interval, batch_size, dry_run
    session,     \* which run this is ("first", "resumed") and how the first ended
    pc,          \* where the process stands
    fa,          \* locals of the fetch_ads generator
    coll,        \* attributes of the collector: _records_since_checkpoint, _request_count
    stats,       \* the stats dict of run()
    exc,         \* the exception run() caught in "except Exception" ("none": no one)
    hist,        \* history: what was yielded, saved and raised
    caller       \* who called run(), and what its authenticate() call gave

rVars == <<src, config, session, pc, fa, coll, stats, exc, hist, caller>>

VARIABLES
    \* ---- one item through transform_ad, validate_record and run()'s routing ----
    vRaw,        \* the raw item of the API (None: validate_record called on a record)
    vRec,        \* the record: transform_ad's result, or the caller's
    vOut,        \* what validate_record returned: (is_valid, error)
    vPc          \* "raw", "record", "validated", "written", "rejected"

vVars == <<vRaw, vRec, vOut, vPc>>

VARIABLES
    \* ---- fetch_ads with the attempts of _make_request ----
    fqSrc,       \* the pages of the source
    fq           \* the generator: its params, the attempt in progress, what it did

qVars == <<fqSrc, fq>>

(***************************************************************************)
(* Python values.  A value is a tagged tuple, so values of different       *)
(* Python types are comparable.  A dict is a function from a set of keys.  *)
(***************************************************************************)
PyNone == <<"none">>
PyInt(n) == <<"int", n>>
PyStr(s) == <<"str", s>>
PyFloat(x) == <<"float", x>>
\* the str produced by datetime.utcnow().isoformat() + "Z" at clock value n
PyTime(n) == <<"isotime", n>>

EmptyDict == [k \in {} |-> PyNone]

\* dict.get(key, default)
DictGet(d, key, default) == IF key \in DOMAIN d THEN d[key] ELSE default

\* d[key] = value
DictSet(d, key, value) ==
    [k \in DOMAIN d \cup {key} |-> IF k = key THEN value ELSE d[k]]

\* d.update(other)
DictUpdate(d, other) ==
    [k \in DOMAIN d \cup DOMAIN other |-> IF k \in DOMAIN other THEN other[k] ELSE d[k]]

\* bool(value) of None, a str, an int or a float
Truthy(v) == v \notin {PyNone, PyStr(""), PyInt(0), PyFloat(0)}

\* int payload of a PyInt
IntOf(v) == v[2]

(***************************************************************************)
(* JSON text.  A file's text is a sequence of tokens; json.dump writes an  *)
(* object as  {  "key": value ...  } .  Text that was cut short, that is   *)
(* not JSON, that is not UTF-8, or that is JSON but not an object, are all *)
(* texts of this kind that json_loads must deal with.                      *)
(***************************************************************************)
TokOpen == <<"{">>
TokClose == <<"}">>
TokPair(k, jv) == <<"pair", k, jv>>
TokJunk == <<"junk">>            \* characters that are no JSON
TokBadByte == <<"badbyte">>      \* a byte sequence that is no UTF-8
TokArrOpen == <<"[">>
TokArrClose == <<"]">>
TokNull == <<"null">>            \* the JSON document  null

\* every key a checkpoint of this program can hold, in a fixed serialisation order
KeyOrder == <<"cursor", "records_processed", "total_fetched", "pages_processed",
              "date_range", "status", "last_update", "platform">>

\* (an encoder that writes None as the text "None" instead of null)
JsonEncNoneAsText(v) ==
    CASE v[1] = "none" -> <<"string", "None">>
      [] v[1] = "int" -> <<"number", v[2]>>
      [] v[1] = "str" -> <<"string", v[2]>>
      [] v[1] = "isotime" -> <<"timestring", v[2]>>

\* json encoding of one Python value
JsonEnc(v) ==
    CASE v[1] = "none" -> <<"null">>
      [] v[1] = "int" -> <<"number", v[2]>>
      [] v[1] = "str" -> <<"string", v[2]>>
      [] v[1] = "isotime" -> <<"timestring", v[2]>>

\* json decoding of one JSON value
JsonDec(jv) ==
    CASE jv[1] = "null" -> PyNone
      [] jv[1] = "number" -> PyInt(jv[2])
      [] jv[1] = "string" -> PyStr(jv[2])
      [] jv[1] = "timestring" -> PyTime(jv[2])

RECURSIVE DumpPairs(_, _)
DumpPairs(d, i) ==
    IF i > Len(KeyOrder) THEN <<>>
    ELSE (IF KeyOrder[i] \in DOMAIN d
          THEN <<TokPair(KeyOrder[i], JsonEnc(d[KeyOrder[i]]))>>
          ELSE <<>>) \o DumpPairs(d, i + 1)

\* json.dumps(d) for a dict d
json_dumps(d) == <<TokOpen>> \o DumpPairs(d, 1) \o <<TokClose>>

IsPair(tok) == Len(tok) = 3 /\ tok[1] = "pair"

\* the text is one complete JSON object
IsObjectText(t) ==
    /\ Len(t) >= 2
    /\ t[1] = TokOpen
    /\ t[Len(t)] = TokClose
    /\ \A i \in 2..(Len(t) - 1) : IsPair(t[i])

\* the text is a complete JSON document that is not an object
IsNonObjectText(t) == t = <<TokArrOpen, TokArrClose>> \/ t = <<TokNull>>

\* open(..., encoding="utf-8").read() fails
IsUndecodable(t) == \E i \in 1..Len(t) : t[i] = TokBadByte

\* json.load(f): the parsed value, or the exception it raises
json_loads(t) ==
    IF IsUndecodable(t) THEN [kind |-> "UnicodeDecodeError", data |-> EmptyDict]
    ELSE IF IsObjectText(t)
         THEN [kind |-> "dict",
               data |-> [k \in {t[i][2] : i \in 2..(Len(t) - 1)} |->
                            JsonDec(t[CHOOSE i \in 2..(Len(t) - 1) : t[i][2] = k][3])]]
    ELSE IF IsNonObjectText(t) THEN [kind |-> "nondict", data |-> EmptyDict]
    ELSE [kind |-> "JSONDecodeError", data |-> EmptyDict]

(***************************************************************************)
(* CheckpointManager  (shared/checkpoint_manager.py)                       *)
(***************************************************************************)
Platform == "meta"

NoFile == [exists |-> FALSE, text |-> <<>>]
FileOf(t) == [exists |-> TRUE, text |-> t]

\* CheckpointManager.load on the canonical file f:
\*   kind "data"  -> returns the dict          (line 100 / 109)
\*   kind "none"  -> returns None              (line 120)
\*   kind "raise" -> raises CheckpointError    (line 114)
\* (a caller that dies of it records the outcome "load_raised")
load(f) ==
    IF ~f.exists THEN [kind |-> "none", data |-> EmptyDict]
    ELSE LET parsed == json_loads(f.text) IN
         CASE parsed.kind = "dict" -> [kind |-> "data", data |-> parsed.data]
           \* except json.JSONDecodeError: warning, fall through to return None
           [] parsed.kind = "JSONDecodeError" -> [kind |-> "none", data |-> EmptyDict]
           \* UnicodeDecodeError, and the AttributeError of data.get on a value
           \* that is no dict, reach "except Exception" and are re-raised
           [] OTHER -> [kind |-> "raise", data |-> EmptyDict]

\* the dict save() serialises: a copy of data with last_update and platform set
save_data(data, clock) ==
    DictSet(DictSet(data, "last_update", PyTime(clock)), "platform", PyStr(Platform))

\* The two files of local mode as one value  [file, tmp].
\* open(temp_path, "w"): creates or truncates the staging file
OpenTemp(fs) == [fs EXCEPT !.tmp = FileOf(<<>>)]

\* (a save without staging: the write lands in the canonical file itself)
WriteInPlace(fs, tok) ==
    [fs EXCEPT !.file = FileOf(IF fs.tmp.text = <<>> THEN <<tok>> ELSE @.text \o <<tok>>),
               !.tmp = FileOf(fs.tmp.text \o <<tok>>)]
\* one write of json.dump reaching the staging file
WriteTemp(fs, tok) == [fs EXCEPT !.tmp = FileOf(@.text \o <<tok>>)]

\* os.replace(temp_path, checkpoint_path)
ReplaceTemp(fs) == [file |-> fs.tmp, tmp |-> NoFile]

RECURSIVE WriteAll(_, _, _)
WriteAll(fs, text, i) ==
    IF i > Len(text) THEN fs ELSE WriteAll(WriteTemp(fs, text[i]), text, i + 1)

\* a whole successful local save(): open, dump, replace
save_local(fs, data, clock) ==
    ReplaceTemp(WriteAll(OpenTemp(fs), json_dumps(save_data(data, clock)), 1))

\* a whole successful GCS save(): blob.upload_from_string replaces the object
save_gcs(fs, data, clock) ==
    [fs EXCEPT !.file = FileOf(json_dumps(save_data(data, clock)))]

\* (a get_cursor that never finds a cursor)
get_cursor_ignored(f) == PyNone

\* get_cursor(): the cursor of the loaded checkpoint, None without one
get_cursor(f) ==
    LET r == load(f) IN
    IF r.kind = "data" THEN DictGet(r.data, "cursor", PyNone) ELSE PyNone

\* (a save_cursor that writes without loading)
save_cursor_unmerged(loaded, cursor, records_in_batch, additional_data) ==
    DictUpdate([cursor |-> cursor, records_processed |-> PyInt(records_in_batch)],
               additional_data)

\* save_cursor: the dict handed to save(), from the loaded checkpoint (or {})
save_cursor_data(loaded, cursor, records_in_batch, additional_data) ==
    LET c1 == DictSet(loaded, "cursor", cursor)
        c2 == DictSet(c1, "records_processed",
                      PyInt(IntOf(DictGet(loaded, "records_processed", PyInt(0)))
                            + records_in_batch))
    IN DictUpdate(c2, additional_data)

\* (an update_progress that writes without loading)
update_progress_unmerged(loaded, records_processed, additional_data) ==
    DictUpdate([records_processed |-> PyInt(records_processed)], additional_data)

\* update_progress: the dict handed to save()
update_progress_data(loaded, records_processed, additional_data) ==
    DictUpdate(DictSet(loaded, "records_processed", PyInt(records_processed)),
               additional_data)

(***************************************************************************)
(* OutputWriter  (shared/output_writer.py)                                 *)
(* Local and GCS mode differ in where the bytes go; a write stores the     *)
(* whole file, or raises, and in local mode a write that raises may leave  *)
(* a part of the file behind.                                              *)
(***************************************************************************)
\* OutputWriter.__init__: the state of a fresh writer of run `run`
NewWriter(run, batch_size) ==
    [extraction_id |-> run, batch_size |-> batch_size, current_batch |-> <<>>,
     batch_count |-> 0, total_records |-> 0, batch_files |-> <<>>]

\* what an OutputWriter call leaves: the object, the storage, what it
\* returned ("none" for None), and whether it raised OutputError
WResult(w1, disk1, ret, raised) == [w |-> w1, disk |-> disk1, ret |-> ret, raised |-> raised]

\* the name of the batch file: {platform}_ads_{extraction_id}_batch_{NNNN}
BatchName(w1) == [run |-> w1.extraction_id, seq |-> w1.batch_count]

\* (a writer that gives the buffer up when the write fails)
FlushFailedDropsBatch(w1) ==
    [w1 EXCEPT !.batch_count = @ + 1, !.current_batch = <<>>]

\* (a writer that tries the failed write once more, under the next number)
FlushFailedTwice(w1) == [w1 EXCEPT !.batch_count = @ + 2]

\* the writer after a flush whose write raised: the sequence number is
\* taken, the buffer is kept, the file is not listed
FlushFailed(w1) == [w1 EXCEPT !.batch_count = @ + 1]

\* the writer after a flush whose write succeeded
FlushDone(w1) ==
    [w1 EXCEPT !.batch_count = @ + 1,
               !.batch_files = Append(@, BatchName([w1 EXCEPT !.batch_count = @ + 1])),
               !.current_batch = <<>>]

\* what the storage does with the write of one batch file: it stores the
\* file, refuses it, or fails after a part of the content was written
WriteOutcomes == {"stored", "refused", "partial"}

\* a batch file in storage: its name, the records whose lines are in it, and
\* whether the write of it completed
BatchFile(name, records, complete) ==
    [name |-> name, records |-> records, complete |-> complete]

\* (a writer that flushes whatever the buffer holds)
BufferNeverEmpty(w1) == FALSE

\* "if not self.current_batch: return None"
BufferEmpty(w1) == w1.current_batch = <<>>

\* flush_batch(); wr is what the storage does with the write
flush_batch(w1, disk, wr) ==
    IF BufferEmpty(w1) THEN WResult(w1, disk, "none", FALSE)
    ELSE CASE wr = "stored" ->
                WResult(FlushDone(w1),
                        Append(disk, BatchFile(BatchName(FlushDone(w1)), w1.current_batch, TRUE)),
                        "file", FALSE)
           [] wr = "refused" -> WResult(FlushFailed(w1), disk, "none", TRUE)
           [] wr = "partial" ->
                WResult(FlushFailed(w1),
                        Append(disk, BatchFile(BatchName(FlushFailed(w1)),
                                               SubSeq(w1.current_batch, 1,
                                                      Len(w1.current_batch) - 1),
                                               FALSE)),
                        "none", TRUE)

\* (a writer that leaves flushing to flush_batch and finalize)
BatchNeverFull(w1) == FALSE

\* (a writer that flushes only once the buffer exceeds the batch size)
BatchOverfull(w1) == Len(w1.current_batch) > w1.batch_size

\* "if len(self.current_batch) >= self.batch_size"
BatchFull(w1) == Len(w1.current_batch) >= w1.batch_size

\* write_record(record)
write_record(w1, disk, rec, wr) ==
    LET w2 == [w1 EXCEPT !.current_batch = Append(@, rec), !.total_records = @ + 1] IN
    IF BatchFull(w2) THEN flush_batch(w2, disk, wr) ELSE WResult(w2, disk, "none", FALSE)

\* write_records(records): write_record one by one; the write of the flush
\* that the failAt-th record triggers (if any) fails and ends the loop
RECURSIVE write_records(_, _, _, _, _)
write_records(w1, disk, recs, failAt, i) ==
    IF i > Len(recs) THEN WResult(w1, disk, "none", FALSE)
    ELSE LET r == write_record(w1, disk, recs[i],
                               IF i # failAt THEN "stored" ELSE "refused") IN
         IF r.raised THEN r ELSE write_records(r.w, r.disk, recs, failAt, i + 1)

\* the manifest finalize() builds
Manifest(w1) ==
    [extraction_id |-> w1.extraction_id, total_records |-> w1.total_records,
     total_batches |-> w1.batch_count, batch_files |-> w1.batch_files]

\* finalize(): flush the rest, write the manifest; ret is "manifest" when it
\* returns one.  wrFlush: what the storage does with the write of the batch;
\* okManifest: whether it accepts the manifest
finalize(w1, disk, wrFlush, okManifest) ==
    LET f == flush_batch(w1, disk, wrFlush) IN
    IF f.raised THEN f
    ELSE IF okManifest THEN WResult(f.w, f.disk, "manifest", FALSE)
    ELSE WResult(f.w, f.disk, "none", TRUE)

(***************************************************************************)
(* SpecW: the writer on its own, under any sequence of calls and storage   *)
(* failures.                                                               *)
(***************************************************************************)
MaxBatch == 3            \* batch_size is drawn from 1..MaxBatch
MaxWrites == 4           \* records handed to the writer in one behaviour
MaxFaults == 2           \* storage failures in one behaviour

WOutcome(op, kind) == [op |-> op, kind |-> kind]

\* wHist.shape: "writes" while only write_record was called and nothing
\* failed, "finalized" after the finalize that follows them, else "mixed"
WInit ==
    /\ \E b \in 1..MaxBatch : w = NewWriter(1, b)
    /\ wDisk = <<>>
    /\ wManifests = <<>>
    /\ wLast = WOutcome("init", "ok")
    /\ wFaults = 0
    /\ wHist = [writes |-> 0, shape |-> "writes"]

WApply(op, r, shape, nrec) ==
    /\ UNCHANGED <<ckVars, rlVars, rVars, vVars, qVars>>
    /\ w' = r.w
    /\ wDisk' = r.disk
    /\ wLast' = WOutcome(op, IF r.raised THEN "OutputError" ELSE r.ret)
    /\ wFaults' = IF r.raised THEN wFaults + 1 ELSE wFaults
    /\ wHist' = [writes |-> wHist.writes + nrec,
                 shape |-> IF r.raised THEN "mixed" ELSE shape]
    /\ wManifests' = IF r.ret = "manifest" THEN Append(wManifests, Manifest(r.w))
                     ELSE wManifests

WWriteRecord(wr) ==
    /\ wHist.writes < MaxWrites
    /\ wr = "stored" \/ wFaults < MaxFaults
    /\ WApply("write_record", write_record(w, wDisk, wHist.writes + 1, wr),
              IF wHist.shape = "writes" THEN "writes" ELSE "mixed", 1)

WWriteRecords(failAt) ==
    /\ wHist.writes + 2 <= MaxWrites
    /\ failAt = 0 \/ wFaults < MaxFaults
    /\ LET r == write_records(w, wDisk, <<wHist.writes + 1, wHist.writes + 2>>, failAt, 1) IN
       WApply("write_records", r, "mixed", r.w.total_records - w.total_records)

WFlushBatch(wr) ==
    /\ wr = "stored" \/ wFaults < MaxFaults
    /\ wLast.op # "flush_batch" \/ wLast.kind = "OutputError"
    /\ WApply("flush_batch", flush_batch(w, wDisk, wr), "mixed", 0)

WFinalize(wrFlush, okManifest) ==
    /\ (wrFlush = "stored" /\ okManifest) \/ wFaults < MaxFaults
    /\ Len(wManifests) < 2
    /\ WApply("finalize", finalize(w, wDisk, wrFlush, okManifest),
              IF wHist.shape = "writes" THEN "finalized" ELSE "mixed", 0)

WNext ==
    \/ \E wr \in WriteOutcomes : WWriteRecord(wr)
    \/ \E failAt \in 0..2 : WWriteRecords(failAt)
    \/ \E wr \in WriteOutcomes : WFlushBatch(wr)
    \/ \E wr \in WriteOutcomes, okM \in BOOLEAN : WFinalize(wr, okM)

(***************************************************************************)
(* RateLimiter  (shared/rate_limiter.py)                                   *)
(* Time is counted in clock units, UnitsPerSecond to the second.  The      *)
(* float `tokens` is kept exactly, as the integer tokens * TokenScale,     *)
(* where TokenScale = 60 * UnitsPerSecond: one clock unit of refill adds   *)
(* requests_per_minute to it, and every value it takes is a multiple of    *)
(* requests_per_minute, so that the waits below divide exactly.            *)
(***************************************************************************)
UnitsPerSecond == 2
SecondsPerMinute == 60
TokenScale == SecondsPerMinute * UnitsPerSecond
StatsWindowSeconds == 60       \* get_stats: requests of the last minute
HistoryKeepSeconds == 300      \* wait_if_needed: history kept for 5 minutes

Min(a, b) == IF a < b THEN a ELSE b

RECURSIVE Pow(_, _)
Pow(b, e) == IF e = 0 THEN 1 ELSE b * Pow(b, e - 1)

\* [t for t in history if t > cutoff]
RECURSIVE KeepAfter(_, _)
KeepAfter(h, cutoff) ==
    IF h = <<>> THEN <<>>
    ELSE (IF Head(h) > cutoff THEN <<Head(h)>> ELSE <<>>) \o KeepAfter(Tail(h), cutoff)

\* RateLimiter.__init__ at time t
NewRateLimiter(cfg, t) ==
    [requests_per_minute |-> cfg.requests_per_minute,
     burst |-> cfg.burst,
     backoff_multiplier |-> cfg.backoff_multiplier,
     max_retries |-> cfg.max_retries,
     initial_retry_delay |-> cfg.initial_retry_delay,
     tokens |-> cfg.burst * TokenScale,
     last_update |-> t,
     request_history |-> <<>>,
     total_requests |-> 0,
     total_wait_time |-> 0,
     rate_limit_errors |-> 0]

\* the refill of wait_if_needed: min(burst, tokens + elapsed * requests_per_second)
Refilled(r, t) ==
    Min(r.burst * TokenScale, r.tokens + (t - r.last_update) * r.requests_per_minute)

\* a limiter that never makes the caller wait
WaitForNothing(r, t) == 0

\* the sleep of wait_if_needed, in clock units: (1 - tokens) / requests_per_second
WaitFor(r, t) ==
    IF Refilled(r, t) < TokenScale
    THEN (TokenScale - Refilled(r, t)) \div r.requests_per_minute
    ELSE 0

\* last_update as wait_if_needed leaves it: the time the call began
LastUpdateAfterWait(r, t) == t

\* wait_if_needed() called at time t: the object it leaves.  The call
\* returns WaitFor(r, t) and the clock stands at t + WaitFor(r, t) then.
wait_if_needed(r, t) ==
    LET wait == WaitFor(r, t)
        tokens1 == IF Refilled(r, t) < TokenScale THEN TokenScale ELSE Refilled(r, t)
        current_time == t + wait
    IN [r EXCEPT !.tokens = tokens1 - TokenScale,
                 !.last_update = LastUpdateAfterWait(r, t),
                 !.total_wait_time = @ + wait,
                 !.total_requests = @ + 1,
                 !.request_history =
                     KeepAfter(Append(@, current_time),
                               current_time - HistoryKeepSeconds * UnitsPerSecond)]

\* a backoff that does not grow with the attempt
BackoffFlat(r, retry_after, attempt) ==
    IF retry_after >= 0 THEN retry_after * UnitsPerSecond
    ELSE r.initial_retry_delay * UnitsPerSecond

\* the sleep of handle_rate_limit_error, in clock units; retry_after < 0
\* stands for None
BackoffFor(r, retry_after, attempt) ==
    IF retry_after >= 0 THEN retry_after * UnitsPerSecond
    ELSE r.initial_retry_delay * Pow(r.backoff_multiplier, attempt - 1) * UnitsPerSecond

\* a limiter that gives up one attempt early
BackoffRaisesAtLimit(r, attempt) == attempt >= r.max_retries

\* handle_rate_limit_error raises RateLimitError instead of sleeping
BackoffRaises(r, attempt) == attempt > r.max_retries

\* handle_rate_limit_error(retry_after, attempt) called at time t
handle_rate_limit_error(r, t, retry_after, attempt) ==
    IF BackoffRaises(r, attempt) THEN r
    ELSE [r EXCEPT !.rate_limit_errors = @ + 1,
                   !.total_wait_time = @ + BackoffFor(r, retry_after, attempt),
                   !.tokens = r.burst * TokenScale,
                   !.last_update = t + BackoffFor(r, retry_after, attempt)]

\* reset() called at time t
reset(r, t) ==
    [r EXCEPT !.tokens = r.burst * TokenScale, !.last_update = t,
              !.request_history = <<>>, !.total_requests = 0,
              !.total_wait_time = 0, !.rate_limit_errors = 0]

(***************************************************************************)
(* SpecRL: the rate limiter on its own, called at any times.               *)
(***************************************************************************)
MaxCalls == 5            \* wait_if_needed calls in one behaviour
MaxTicks == 3            \* steps of the clock between calls in one behaviour
MaxThrottles == 1        \* handle_rate_limit_error and reset calls in one behaviour

\* the configurations explored: the defaults' shape with small numbers, and
\* the 60-per-minute, burst-1 limiter
RlConfigs ==
    { [requests_per_minute |-> 2, burst |-> 1, backoff_multiplier |-> 2,
       max_retries |-> 1, initial_retry_delay |-> 1],
      [requests_per_minute |-> 2, burst |-> 2, backoff_multiplier |-> 2,
       max_retries |-> 2, initial_retry_delay |-> 3],
      [requests_per_minute |-> 60, burst |-> 1, backoff_multiplier |-> 2,
       max_retries |-> 1, initial_retry_delay |-> 1] }

\* the clock moves by half the time one token takes to refill (at least a unit)
TickLength ==
    IF TokenScale \div (2 * rl.requests_per_minute) >= 1
    THEN TokenScale \div (2 * rl.requests_per_minute) ELSE 1

RlOutcome(op, wait, raised) == [op |-> op, wait |-> wait, raised |-> raised]

RlInit ==
    /\ now = 0
    /\ \E cfg \in RlConfigs : rl = NewRateLimiter(cfg, 0)
    /\ rlLast = RlOutcome("init", 0, FALSE)
    /\ rlHist = [ticks |-> 0, throttles |-> 0, only_wait |-> TRUE]

RlFrame == UNCHANGED <<ckVars, wVars, rVars, vVars, qVars>>

\* time passes between two calls
RlTick ==
    /\ RlFrame
    /\ rlHist.ticks < MaxTicks
    /\ now' = now + TickLength
    /\ rlHist' = [rlHist EXCEPT !.ticks = @ + 1]
    /\ UNCHANGED <<rl, rlLast>>

RlWaitIfNeeded ==
    /\ RlFrame
    /\ rl.total_requests < MaxCalls
    /\ rl' = wait_if_needed(rl, now)
    /\ now' = now + WaitFor(rl, now)
    /\ rlLast' = RlOutcome("wait_if_needed", WaitFor(rl, now), FALSE)
    /\ UNCHANGED rlHist

RlHandleRateLimitError(retry_after, attempt) ==
    /\ RlFrame
    /\ rlHist.throttles < MaxThrottles
    /\ rl' = handle_rate_limit_error(rl, now, retry_after, attempt)
    /\ now' = IF BackoffRaises(rl, attempt) THEN now
              ELSE now + BackoffFor(rl, retry_after, attempt)
    /\ rlLast' = IF BackoffRaises(rl, attempt)
                 THEN RlOutcome("handle_rate_limit_error", 0, TRUE)
                 ELSE RlOutcome("handle_rate_limit_error",
                                BackoffFor(rl, retry_after, attempt), FALSE)
    /\ rlHist' = [rlHist EXCEPT !.throttles = @ + 1, !.only_wait = FALSE]

RlReset ==
    /\ RlFrame
    /\ rlHist.throttles < MaxThrottles
    /\ rl.total_requests > 0
    /\ rl' = reset(rl, now)
    /\ rlLast' = RlOutcome("reset", 0, FALSE)
    /\ rlHist' = [rlHist EXCEPT !.throttles = @ + 1, !.only_wait = FALSE]
    /\ UNCHANGED now

\* the arguments of handle_rate_limit_error explored: retry_after None (-1),
\* 0 or 3 seconds, attempt up to one past the largest max_retries
RetryAfters == {-1, 0, 3}
Attempts == 1..3

RlNext ==
    \/ RlTick
    \/ RlWaitIfNeeded
    \/ \E ra \in RetryAfters, a \in Attempts : RlHandleRateLimitError(ra, a)
    \/ RlReset

(***************************************************************************)
(* SpecCk: the checkpoint store on its own.  save() of local mode is three *)
(* kinds of step (open the staging file, write a piece, replace), and the  *)
(* process may die between any two of them.                                *)
(***************************************************************************)
MaxCkSaves == 2          \* saves begun in one behaviour

\* the checkpoints handed to save() directly
CkInputs ==
    { [cursor |-> PyNone, records_processed |-> PyInt(0)],
      [cursor |-> PyStr("c1"), records_processed |-> PyInt(2)],
      [cursor |-> PyStr("c1")],
      [cursor |-> PyStr("c2"), records_processed |-> PyInt(2), status |-> PyStr("completed")] }

\* additional_data values of save_cursor / update_progress
CkExtras == {EmptyDict, [status |-> PyStr("completed"), pages_processed |-> PyInt(1)]}

\* cursor and records_in_batch of the save_cursor calls
CkCursorCalls == {<<PyStr("c1"), 1>>, <<PyStr("c2"), 2>>}

\* texts an interrupted or foreign writer can leave at the canonical location
CkCorruptTexts ==
    { <<>>,                                  \* empty file
      <<TokOpen>>,                           \* JSON cut short
      <<TokOpen, TokPair("cursor", <<"string", "c1">>)>>,
      <<TokJunk>>,                           \* "not valid json{{{"
      <<TokBadByte>>,                        \* bytes that are no UTF-8
      <<TokArrOpen, TokArrClose>>,           \* JSON, but a list
      <<TokNull>> }                          \* JSON, but null

CkFs == [file |-> ckFile, tmp |-> ckTmp]

\* what the checkpoint store's own steps leave alone
CkFrame == UNCHANGED <<wVars, rlVars, rVars, vVars, qVars>>

\* (no save_cursor call has returned)
NoCalls == [count |-> 0, last |-> PyNone, sum |-> 0]

CkOutcome(op, kind, data) == [op |-> op, kind |-> kind, data |-> data]

CkInit ==
    /\ ckFile = NoFile
    /\ ckTmp = NoFile
    /\ ckMode \in {"local", "gcs"}
    /\ ckClock = 0
    /\ ckPc = "idle"
    /\ ckText = <<>>
    /\ ckHist = [prev |-> NoFile, new |-> NoFile, arg |-> EmptyDict,
                 tracking |-> FALSE, saved |-> FALSE, corrupted |-> FALSE,
                 call |-> <<>>, calls |-> NoCalls, only_cursor_saves |-> TRUE]
    /\ ckLast = CkOutcome("init", "ok", EmptyDict)

\* save(data) entered: local mode opens the staging file, GCS mode uploads
\* (history: call is <<cursor, records_in_batch, additional_data>> of a
\* save_cursor call, <<records_processed, additional_data>> of an
\* update_progress call and <<>> of a direct save; calls sums up the
\* save_cursor calls that returned since the location was last absent, and
\* only_cursor_saves says that nothing else wrote to it since then)
CkBeginSave(op, data, call) ==
    /\ ckClock < MaxCkSaves
    /\ ckClock' = ckClock + 1
    /\ ckText' = json_dumps(save_data(data, ckClock))
    /\ ckHist' = [prev |-> ckFile, new |-> FileOf(ckText'), arg |-> data,
                  tracking |-> TRUE, saved |-> FALSE, corrupted |-> ckHist.corrupted,
                  call |-> call, calls |-> ckHist.calls,
                  only_cursor_saves |-> ckHist.only_cursor_saves]
    /\ ckLast' = CkOutcome(op, "running", EmptyDict)
    /\ ckPc' = "writing"
    /\ IF ckMode = "local"
       THEN /\ ckFile' = OpenTemp(CkFs).file
            /\ ckTmp' = OpenTemp(CkFs).tmp
       ELSE UNCHANGED <<ckFile, ckTmp>>
    /\ UNCHANGED ckMode

CkSave(data) ==
    /\ CkFrame
    /\ ckPc = "idle"
    /\ CkBeginSave("save", data, <<>>)

\* (history of a save() that returned)
CkSaved(h) ==
    [h EXCEPT !.saved = TRUE,
              !.calls = IF Len(h.call) = 3
                        THEN [count |-> @.count + 1, last |-> h.call[1],
                              sum |-> @.sum + h.call[2]]
                        ELSE @,
              !.only_cursor_saves = @ /\ Len(h.call) = 3]

\* json.dump writes the next piece of the text to the staging file
CkSaveWrite ==
    /\ CkFrame
    /\ ckPc = "writing"
    /\ ckMode = "local"
    /\ Len(ckTmp.text) < Len(ckText)
    /\ LET fs == WriteTemp(CkFs, ckText[Len(ckTmp.text) + 1]) IN
       /\ ckFile' = fs.file
       /\ ckTmp' = fs.tmp
    /\ UNCHANGED <<ckMode, ckClock, ckPc, ckText, ckHist, ckLast>>

\* the file is closed and os.replace moves it over the canonical file
CkSaveReplace ==
    /\ CkFrame
    /\ ckPc = "writing"
    /\ ckMode = "local"
    /\ Len(ckTmp.text) = Len(ckText)
    /\ LET fs == ReplaceTemp(CkFs) IN
       /\ ckFile' = fs.file
       /\ ckTmp' = fs.tmp
    /\ ckPc' = "idle"
    /\ ckHist' = CkSaved(ckHist)
    /\ ckLast' = [ckLast EXCEPT !.kind = "ok"]
    /\ UNCHANGED <<ckMode, ckClock, ckText>>

\* blob.upload_from_string: the object is replaced as a unit
CkSaveUpload ==
    /\ CkFrame
    /\ ckPc = "writing"
    /\ ckMode = "gcs"
    /\ ckFile' = FileOf(ckText)
    /\ ckPc' = "idle"
    /\ ckHist' = CkSaved(ckHist)
    /\ ckLast' = [ckLast EXCEPT !.kind = "ok"]
    /\ UNCHANGED <<ckTmp, ckMode, ckClock, ckText>>

\* the storage fails inside save(): "except Exception" raises CheckpointError
CkSaveError ==
    /\ CkFrame
    /\ ckPc = "writing"
    /\ ckPc' = "idle"
    /\ ckLast' = [ckLast EXCEPT !.kind = "raise"]
    /\ UNCHANGED <<ckFile, ckTmp, ckMode, ckClock, ckText, ckHist>>

\* the process dies inside save(); the files stay as they are
CkCrash ==
    /\ CkFrame
    /\ ckPc = "writing"
    /\ ckPc' = "idle"
    /\ ckLast' = [ckLast EXCEPT !.op = "crash", !.kind = "crash"]
    /\ UNCHANGED <<ckFile, ckTmp, ckMode, ckClock, ckText, ckHist>>

CkLoad ==
    /\ CkFrame
    /\ ckPc = "idle"
    /\ ckLast' = CkOutcome("load", load(ckFile).kind, load(ckFile).data)
    /\ UNCHANGED <<ckFile, ckTmp, ckMode, ckClock, ckPc, ckText, ckHist>>

CkGetCursor ==
    /\ CkFrame
    /\ ckPc = "idle"
    /\ ckLast' = IF load(ckFile).kind = "raise"
                 THEN CkOutcome("get_cursor", "load_raised", EmptyDict)
                 ELSE CkOutcome("get_cursor", "ok", [cursor |-> get_cursor(ckFile)])
    /\ UNCHANGED <<ckFile, ckTmp, ckMode, ckClock, ckPc, ckText, ckHist>>

\* save_cursor(cursor, records_in_batch, additional_data): load, merge, save
CkSaveCursor(cursor, n, extra) ==
    /\ CkFrame
    /\ ckPc = "idle"
    /\ IF load(ckFile).kind = "raise"
       THEN /\ ckLast' = CkOutcome("save_cursor", "load_raised", EmptyDict)
            /\ UNCHANGED <<ckFile, ckTmp, ckMode, ckClock, ckPc, ckText, ckHist>>
       ELSE CkBeginSave("save_cursor", save_cursor_data(load(ckFile).data, cursor, n, extra),
                        <<cursor, n, extra>>)

\* update_progress(records_processed, additional_data): load, merge, save
CkUpdateProgress(n, extra) ==
    /\ CkFrame
    /\ ckPc = "idle"
    /\ IF load(ckFile).kind = "raise"
       THEN /\ ckLast' = CkOutcome("update_progress", "load_raised", EmptyDict)
            /\ UNCHANGED <<ckFile, ckTmp, ckMode, ckClock, ckPc, ckText, ckHist>>
       ELSE CkBeginSave("update_progress", update_progress_data(load(ckFile).data, n, extra),
                        <<n, extra>>)

\* clear(): the canonical file is removed
CkClear ==
    /\ CkFrame
    /\ ckPc = "idle"
    /\ ckFile.exists
    /\ ckFile' = NoFile
    /\ ckHist' = [ckHist EXCEPT !.tracking = FALSE, !.saved = FALSE,
                                !.calls = NoCalls, !.only_cursor_saves = TRUE]
    /\ ckLast' = CkOutcome("clear", "ok", EmptyDict)
    /\ UNCHANGED <<ckTmp, ckMode, ckClock, ckPc, ckText>>

\* something other than save() leaves unparseable content at the location
CkCorrupt(t) ==
    /\ CkFrame
    /\ ckPc = "idle"
    /\ ~ckHist.corrupted
    /\ ckFile' = FileOf(t)
    /\ ckHist' = [ckHist EXCEPT !.tracking = FALSE, !.saved = FALSE, !.corrupted = TRUE,
                                !.only_cursor_saves = FALSE]
    /\ ckLast' = CkOutcome("corrupt", "ok", EmptyDict)
    /\ UNCHANGED <<ckTmp, ckMode, ckClock, ckPc, ckText>>

vars == <<ckVars, wVars, rlVars, rVars, vVars, qVars>>

CkNext ==
    \/ \E c \in CkInputs : CkSave(c)
    \/ CkSaveWrite
    \/ CkSaveReplace
    \/ CkSaveUpload
    \/ CkSaveError
    \/ CkCrash
    \/ CkLoad
    \/ CkGetCursor
    \/ \E call \in CkCursorCalls, x \in CkExtras : CkSaveCursor(call[1], call[2], x)
    \/ \E x \in CkExtras : CkUpdateProgress(3, x)
    \/ CkClear
    \/ \E t \in CkCorruptTexts : CkCorrupt(t)

(***************************************************************************)
(* The source API (spec of the external interface, as fetch_ads reads it): *)
(* a request without `after` returns page 1, a request with the `after`    *)
(* cursor of page p returns page p + 1.  A page has items, may carry       *)
(* paging.cursors.after and may carry paging.next; items are numbered      *)
(* through the pages.                                                      *)
(***************************************************************************)
MaxPages == 2            \* pages of the source
MaxPerPage == 3          \* items of a page

CursorNames == <<"c1", "c2", "c3", "c4", "c5">>

\* a page past the end of the source: no items, no paging
EmptyPage == [n |-> 0, after |-> FALSE, next |-> FALSE]

PageSizes == {1, MaxPerPage}

\* the sources explored: 1..MaxPages pages, every page but the last with
\* paging.next, each with or without an `after` cursor
Layouts ==
    UNION { { pages \in [1..k -> [n : PageSizes, after : BOOLEAN, next : BOOLEAN]] :
                \A i \in 1..k : pages[i].next = (i < k) /\ (i < k => pages[i].after) }
            : k \in 1..MaxPages }

PageAt(pages, p) == IF p \in 1..Len(pages) THEN pages[p] ELSE EmptyPage

RECURSIVE ItemsBefore(_, _)
\* the number of items on the pages before page p
ItemsBefore(pages, p) ==
    IF p <= 1 THEN 0 ELSE PageAt(pages, p - 1).n + ItemsBefore(pages, p - 1)

\* response_data["data"][i] of page p (i from 1)
ItemAt(pages, p, i) == ItemsBefore(pages, p) + i

\* response_data["paging"]["cursors"]["after"] of page p, None when absent
AfterOf(pages, p) ==
    IF PageAt(pages, p).after THEN PyStr(CursorNames[p]) ELSE PyNone

\* the page a request with params["after"] = cursor returns (None: no param)
PageFor(cursor) ==
    IF cursor = PyNone THEN 1
    ELSE (CHOOSE i \in 1..Len(CursorNames) : PyStr(CursorNames[i]) = cursor) + 1

AllItems(pages) == 1..ItemsBefore(pages, Len(pages) + 1)

\* the first page from page p on that has no paging.next
RECURSIVE LastPageFrom(_, _)
LastPageFrom(pages, p) ==
    IF PageAt(pages, p).next THEN LastPageFrom(pages, p + 1) ELSE p

\* the items of the pages p..q, in page order and in-page order
ItemsOfPages(pages, p, q) ==
    [j \in 1..(ItemsBefore(pages, q + 1) - ItemsBefore(pages, p)) |->
        ItemsBefore(pages, p) + j]

(***************************************************************************)
(* MetaAdCollector.fetch_ads and BaseAdCollector.run                       *)
(* One process runs run(); the generator and its consumer alternate, so    *)
(* the steps are: start of the generator, one request, run()'s body for    *)
(* one yielded item, the generator's code after the yield, the end of a    *)
(* page, the final checkpoint, and run()'s finally block.                  *)
(***************************************************************************)
DateRange == PyStr("start to end")

\* the first run starts here
NewStats == [records_fetched |-> 0, records_valid |-> 0, records_invalid |-> 0,
             validation_errors |-> 0,
             interrupted |-> FALSE, error |-> "none", manifest |-> FALSE]

NewFetch == [after |-> PyNone, page |-> 0, idx |-> 0, page_count |-> 0, total_ads |-> 0]

NewCollector == [records_since_checkpoint |-> 0, request_count |-> 0]

NewHist == [yielded1 |-> {}, dup |-> 0, saves |-> 0, saved_at |-> 0, finalize_calls |-> 0,
            outcome |-> "running", raised |-> "none",
            afters |-> <<>>, yields |-> <<>>, write_calls |-> <<>>]

RunCfgs ==
    [checkpoint_interval : {1, 2}, batch_size : {2}, dry_run : {FALSE}]
    \cup [checkpoint_interval : {2}, batch_size : {2}, dry_run : {TRUE}]

RlDefault == CHOOSE c \in RlConfigs : c.requests_per_minute = 60

\* the callers of run(): main() of scripts/run_meta_collector.py (the cloud
\* functions do the same), which calls authenticate() first, and a direct
\* call of the public method
Entries == {"main", "run"}

NewCaller(entry) == [entry |-> entry, auth |-> "none", exit |-> "none"]

\* where a process starts
EntryPc(entry) == IF entry = "main" THEN "authenticate" ELSE "start"

RInit ==
    /\ src \in [pages : Layouts, invalid : {{}, {2}}, token_ok : BOOLEAN]
    /\ config \in RunCfgs
    /\ session = [no |-> "first", end1 |-> "none"]
    /\ caller \in {NewCaller(e) : e \in Entries}
    /\ pc = EntryPc(caller.entry)
    /\ fa = NewFetch
    /\ coll = NewCollector
    /\ stats = NewStats
    /\ exc = "none"
    /\ hist = NewHist
    /\ w = NewWriter(1, config.batch_size)
    /\ wDisk = <<>>
    /\ wManifests = <<>>
    /\ wLast = WOutcome("init", "ok")
    /\ wFaults = 0
    /\ wHist = [writes |-> 0, shape |-> "writes"]
    /\ now = 0
    /\ rl = NewRateLimiter(RlDefault, 0)
    /\ rlLast = RlOutcome("init", 0, FALSE)
    /\ rlHist = [ticks |-> 0, throttles |-> 0, only_wait |-> TRUE]

\* what the steps of a run never touch
RFrame == UNCHANGED <<src, config, ckMode, ckPc, ckText, ckHist, ckLast,
                      wLast, wFaults, wHist, rlLast, rlHist, vVars, qVars>>

Streaming == pc \in {"start", "request", "yield", "resume", "page_end"}

\* authenticate(): True on HTTP 200; AuthenticationError on an error answer,
\* a network error or an unreadable body; RateLimitError on error code 4.
\* It never returns False.
AuthOutcomes == {"True", "AuthenticationError", "RateLimitError"}

\* main() after authenticate(): without True, run() is never called
MainRunsAlways(outcome) == "start"

MainAfterAuthenticate(outcome) == IF outcome = "True" THEN "start" ELSE "exit"

\* main(): "if not collector.authenticate(): return 1", "except
\* AuthenticationError: return 1"; a RateLimitError is not caught there and
\* ends the process
RAuthenticate(outcome) ==
    /\ pc = "authenticate"
    /\ outcome = "True" => src.token_ok
    /\ caller' = [caller EXCEPT
                    !.auth = IF outcome = "True" THEN "ok" ELSE "failed",
                    !.exit = IF outcome = "True" THEN "none"
                             ELSE IF outcome = "AuthenticationError" THEN "return 1"
                             ELSE outcome]
    /\ pc' = MainAfterAuthenticate(outcome)
    /\ RFrame
    /\ UNCHANGED <<ckFile, ckTmp, ckClock, w, wDisk, wManifests, rl, now,
                   session, fa, coll, stats, exc, hist>>

\* fetch_ads up to its loop: the cursor of the checkpoint, if any, becomes
\* params["after"]
FirstAfterDropped(cursor) == PyNone

\* "if cursor: params['after'] = cursor" (None: the request has no `after`)
FirstAfter(cursor) == IF Truthy(cursor) THEN cursor ELSE PyNone

RStart ==
    /\ pc = "start"
    /\ fa' = [NewFetch EXCEPT !.after = FirstAfter(get_cursor(ckFile))]
    /\ pc' = "request"
    /\ RFrame
    /\ UNCHANGED <<ckFile, ckTmp, ckClock, w, wDisk, wManifests, rl, now,
                   session, coll, stats, exc, hist, caller>>

\* @retry(stop=stop_after_attempt(5))
StopAfterAttempt == 5

\* the answers of the source to one _make_request call, as fetch_ads sees
\* them: a page, a non-retryable APIError, or tenacity's RetryError after
\* the last attempt failed like the ones before it (requests.RequestException)
RequestOutcomes == {"ok", "APIError", "RetryError"}

\* rate_limiter.wait_if_needed(), then _make_request(url, params)
RRequest(outcome) ==
    /\ pc = "request"
    /\ outcome = "ok" => src.token_ok
    /\ rl' = wait_if_needed(rl, now)
    /\ now' = now + WaitFor(rl, now)
    /\ coll' = [coll EXCEPT !.request_count =
                     @ + (IF outcome = "RetryError" THEN StopAfterAttempt ELSE 1)]
    /\ IF outcome = "ok"
       THEN /\ fa' = [fa EXCEPT !.page = PageFor(fa.after),
                                !.idx = 0,
                                !.page_count = @ + 1,
                                !.total_ads = @ + PageAt(src.pages, PageFor(fa.after)).n]
            /\ pc' = IF PageAt(src.pages, PageFor(fa.after)).n > 0
                     THEN "yield" ELSE "page_end"
            /\ UNCHANGED <<exc, stats>>
       ELSE /\ exc' = outcome
            /\ stats' = [stats EXCEPT !.error = outcome]
            /\ pc' = "finalize"
            /\ UNCHANGED fa
    /\ RFrame
    /\ hist' = [hist EXCEPT !.afters = Append(@, fa.after)]
    /\ UNCHANGED <<ckFile, ckTmp, ckClock, w, wDisk, wManifests, session, caller>>

\* validate_record(transform_ad(raw_ad)) for the item
IsValid(item) == item \notin src.invalid

CurrentItem == ItemAt(src.pages, fa.page, fa.idx + 1)

\* a loop body that hands every record to the writer unless dry_run
WritesRecordUnlessDryRun(valid, dry_run) == ~dry_run

\* "if not is_valid: ... continue", then "if not dry_run: write_record"
WritesRecord(valid, dry_run) == valid /\ ~dry_run

\* "if len(stats["validation_errors"]) < 100:  # Limit stored errors"
ErrorSampleLimit == 100

\* (a loop body that stores every validation error)
CountedWithoutLimit(s, valid) ==
    [s EXCEPT !.records_fetched = @ + 1,
              !.records_valid = @ + (IF valid THEN 1 ELSE 0),
              !.records_invalid = @ + (IF valid THEN 0 ELSE 1),
              !.validation_errors = IF valid THEN @ ELSE @ + 1]

\* stats after the loop body for one item: the counters, and the sample of
\* validation errors (validation_errors is the number of entries of the
\* list), which takes the error of an invalid item while it holds fewer
\* than 100
Counted(s, valid) ==
    [s EXCEPT !.records_fetched = @ + 1,
              !.records_valid = @ + (IF valid THEN 1 ELSE 0),
              !.records_invalid = @ + (IF valid THEN 0 ELSE 1),
              !.validation_errors =
                  IF ~valid /\ @ < ErrorSampleLimit THEN @ + 1 ELSE @]

\* "yield ad" and the body of run()'s loop for it
RConsume(wr) ==
    /\ pc = "yield"
    /\ LET item == CurrentItem
           valid == IsValid(item)
           writes == WritesRecord(valid, config.dry_run)
       IN /\ hist' = [hist EXCEPT
                        !.yielded1 = IF session.no = "first" THEN @ \cup {item} ELSE @,
                        !.dup = IF session.no # "first" /\ item \in hist.yielded1
                                THEN @ + 1 ELSE @,
                        !.yields = Append(@, item),
                        !.write_calls = IF writes THEN Append(@, item) ELSE @]
          /\ IF writes
             THEN LET r == write_record(w, wDisk, item, wr) IN
                  /\ w' = r.w
                  /\ wDisk' = r.disk
                  /\ exc' = IF r.raised THEN "OutputError" ELSE exc
                  /\ stats' = [Counted(stats, valid) EXCEPT
                                 !.error = IF r.raised THEN "OutputError" ELSE @]
                  /\ pc' = IF r.raised THEN "finalize" ELSE "resume"
             ELSE /\ stats' = Counted(stats, valid)
                  /\ pc' = "resume"
                  /\ UNCHANGED <<w, wDisk, exc>>
    /\ RFrame
    /\ UNCHANGED <<ckFile, ckTmp, ckClock, wManifests, rl, now, session, fa, coll, caller>>

\* (a generator that saves one item late)
CheckpointDueLate(n) == n > config.checkpoint_interval

\* "if self._records_since_checkpoint >= self.checkpoint_interval"
CheckpointDue(n) == n >= config.checkpoint_interval

\* (a generator whose code after the yield runs before the loop body of
\* run() for the item)
ResumedBeforeBody(p) == p = "yield"

\* "yield ad": the generator stands still until run()'s loop asks for the
\* next item, which it does after its body for this one
ResumedAfterBody(p) == p = "resume"

\* the generator's code after the yield: count the item and, when the
\* interval is reached and the page has an `after` cursor, save_cursor
RResume(okSave) ==
    /\ ResumedAfterBody(pc)
    /\ LET n == coll.records_since_checkpoint + 1
           cursor == AfterOf(src.pages, fa.page)
           extra == [total_fetched |-> PyInt(fa.total_ads),
                     pages_processed |-> PyInt(fa.page_count),
                     date_range |-> DateRange]
           data == save_cursor_data(load(ckFile).data, cursor, n, extra)
           fs == save_local(CkFs, data, ckClock)
       IN IF CheckpointDue(n) /\ Truthy(cursor)
          THEN IF okSave
               THEN /\ ckFile' = fs.file
                    /\ ckTmp' = fs.tmp
                    /\ ckClock' = ckClock + 1
                    /\ coll' = [coll EXCEPT !.records_since_checkpoint = 0]
                    /\ hist' = [hist EXCEPT !.saves = @ + 1,
                                            !.saved_at = Len(hist.yields)]
                    /\ fa' = [fa EXCEPT !.idx = @ + 1]
                    /\ pc' = IF fa.idx + 1 < PageAt(src.pages, fa.page).n
                             THEN "yield" ELSE "page_end"
                    /\ UNCHANGED <<exc, stats>>
               ELSE /\ exc' = "CheckpointError"
                    /\ stats' = [stats EXCEPT !.error = "CheckpointError"]
                    /\ coll' = [coll EXCEPT !.records_since_checkpoint = n]
                    /\ pc' = "finalize"
                    /\ UNCHANGED <<ckFile, ckTmp, ckClock, hist, fa>>
          ELSE /\ okSave
               /\ coll' = [coll EXCEPT !.records_since_checkpoint = n]
               /\ fa' = [fa EXCEPT !.idx = @ + 1]
               /\ pc' = IF fa.idx + 1 < PageAt(src.pages, fa.page).n
                        THEN "yield" ELSE "page_end"
               /\ UNCHANGED <<ckFile, ckTmp, ckClock, hist, exc, stats>>
    /\ RFrame
    /\ UNCHANGED <<w, wDisk, wManifests, rl, now, session, caller>>

\* after the last item of a page: stop without paging.next or without an
\* `after` cursor, else go on with params["after"] = the cursor
\* (a stream that stops after every page)
StopsAfterEveryPage(page, cursor) == FALSE

\* "if 'next' not in paging: break", "if not next_cursor: break"
HasNextPage(page, cursor) == page.next /\ Truthy(cursor)

RPageEnd ==
    /\ pc = "page_end"
    /\ IF HasNextPage(PageAt(src.pages, fa.page), AfterOf(src.pages, fa.page))
       THEN /\ fa' = [fa EXCEPT !.after = AfterOf(src.pages, fa.page)]
            /\ pc' = "request"
       ELSE /\ pc' = "final_checkpoint"
            /\ UNCHANGED fa
    /\ RFrame
    /\ UNCHANGED <<ckFile, ckTmp, ckClock, w, wDisk, wManifests, rl, now,
                   session, coll, stats, exc, hist, caller>>

\* the final update_progress(records_processed=total_ads, status "completed")
RFinalCheckpoint(okSave) ==
    /\ pc = "final_checkpoint"
    /\ LET extra == [status |-> PyStr("completed"),
                     pages_processed |-> PyInt(fa.page_count),
                     date_range |-> DateRange]
           data == update_progress_data(load(ckFile).data, fa.total_ads, extra)
           fs == save_local(CkFs, data, ckClock)
       IN IF okSave
          THEN /\ ckFile' = fs.file
               /\ ckTmp' = fs.tmp
               /\ ckClock' = ckClock + 1
               /\ hist' = [hist EXCEPT !.saves = @ + 1]
               /\ UNCHANGED <<exc, stats>>
          ELSE /\ exc' = "CheckpointError"
               /\ stats' = [stats EXCEPT !.error = "CheckpointError"]
               /\ UNCHANGED <<ckFile, ckTmp, ckClock, hist>>
    /\ pc' = "finalize"
    /\ RFrame
    /\ UNCHANGED <<w, wDisk, wManifests, rl, now, session, fa, coll, caller>>

\* a handler that clears the checkpoint
CheckpointCleared(f) == NoFile

\* the checkpoint file after "except KeyboardInterrupt": the handler logs
\* and sets stats["interrupted"], it does not call the checkpoint manager
CheckpointAfterInterrupt(f) == f

\* KeyboardInterrupt while streaming: "except KeyboardInterrupt"
RInterrupt ==
    /\ session.no = "first"
    /\ Streaming
    /\ stats' = [stats EXCEPT !.interrupted = TRUE]
    /\ ckFile' = CheckpointAfterInterrupt(ckFile)
    /\ pc' = "finalize"
    /\ RFrame
    /\ UNCHANGED <<ckTmp, ckClock, w, wDisk, wManifests, rl, now,
                   session, fa, coll, exc, hist, caller>>

\* a finally block that skips finalize()
FinalizesNever(dry_run) == FALSE

\* a finally block that calls finalize() in dry-run mode too
FinalizesAlways(dry_run) == TRUE

\* the finally block: finalize() unless dry_run; then the exception caught
\* before is re-raised, or the stats are returned.  An exception raised by
\* finalize() itself leaves the block in place of either.
Finalizes(dry_run) == ~dry_run

RFinalize(wrFlush, okManifest) ==
    /\ pc = "finalize"
    /\ IF ~Finalizes(config.dry_run)
       THEN /\ wrFlush = "stored" /\ okManifest
            /\ hist' = [hist EXCEPT !.outcome = IF exc = "none" THEN "returned" ELSE "raised",
                                    !.raised = exc]
            /\ UNCHANGED <<w, wDisk, wManifests, stats>>
       ELSE LET r == finalize(w, wDisk, wrFlush, okManifest) IN
            /\ w' = r.w
            /\ wDisk' = r.disk
            /\ wManifests' = IF r.raised THEN wManifests
                             ELSE Append(wManifests, Manifest(r.w))
            /\ stats' = [stats EXCEPT !.manifest = ~r.raised]
            /\ hist' = [hist EXCEPT
                          !.finalize_calls = @ + 1,
                          !.outcome = IF r.raised \/ exc # "none" THEN "raised" ELSE "returned",
                          !.raised = IF r.raised THEN "OutputError in finalize" ELSE exc]
    /\ pc' = "ended"
    /\ RFrame
    /\ UNCHANGED <<ckFile, ckTmp, ckClock, rl, now, session, fa, coll, exc, caller>>

\* the process is killed: nothing of it is left but the files
RCrash ==
    /\ session.no = "first"
    /\ Streaming \/ pc \in {"final_checkpoint", "finalize"}
    /\ pc' = "crashed"
    /\ RFrame
    /\ UNCHANGED <<ckFile, ckTmp, ckClock, w, wDisk, wManifests, rl, now,
                   session, fa, coll, stats, exc, hist, caller>>

\* how the first run ended
EndOfRun ==
    IF pc = "crashed" THEN "crash"
    ELSE IF hist.outcome = "raised" THEN "error"
    ELSE IF stats.interrupted THEN "interrupt"
    ELSE "done"

\* a new process runs the same extraction again, whatever the end of the
\* first run was (the daily cloud function never clears the checkpoint): new
\* collector, new writer, new rate limiter; the checkpoint and the batch
\* files are what was left
\* the sources a later run may find after a run that reached the end: the
\* same, or the same with one more page behind the last cursor
GrownSources(s) ==
    IF Len(s.pages) < MaxPages /\ s.pages[Len(s.pages)].after
    THEN { [s EXCEPT !.pages =
               Append([@ EXCEPT ![Len(@)].next = TRUE],
                      [n |-> n, after |-> a, next |-> FALSE])] :
           n \in PageSizes, a \in BOOLEAN }
    ELSE {}

RRestart ==
    /\ session.no = "first"
    /\ pc \in {"crashed", "ended"}
    /\ src' \in {src} \cup (IF EndOfRun = "done" THEN GrownSources(src) ELSE {})
    /\ session' = [no |-> "resumed", end1 |-> EndOfRun]
    /\ caller' = NewCaller(caller.entry)
    /\ pc' = EntryPc(caller.entry)
    /\ fa' = NewFetch
    /\ coll' = NewCollector
    /\ stats' = NewStats
    /\ exc' = "none"
    /\ hist' = [hist EXCEPT !.saves = 0, !.saved_at = 0, !.finalize_calls = 0,
                            !.outcome = "running", !.raised = "none",
                            !.afters = <<>>, !.yields = <<>>, !.write_calls = <<>>]
    /\ w' = NewWriter(2, config.batch_size)
    /\ rl' = NewRateLimiter(RlDefault, now)
    /\ UNCHANGED <<config, ckMode, ckPc, ckText, ckHist, ckLast,
                   wLast, wFaults, wHist, rlLast, rlHist, vVars, qVars>>
    /\ UNCHANGED <<ckFile, ckTmp, ckClock, wDisk, wManifests, now>>

Next ==
    \/ \E o \in AuthOutcomes : RAuthenticate(o)
    \/ RStart
    \/ \E o \in RequestOutcomes : RRequest(o)
    \/ \E wr \in WriteOutcomes : RConsume(wr)
    \/ \E ok \in BOOLEAN : RResume(ok)
    \/ RPageEnd
    \/ \E ok \in BOOLEAN : RFinalCheckpoint(ok)
    \/ RInterrupt
    \/ \E wr \in WriteOutcomes, okM \in BOOLEAN : RFinalize(wr, okM)
    \/ RCrash
    \/ RRestart

(***************************************************************************)
(* The loop of run() on its own, over a stream long enough for the sample  *)
(* of validation errors to fill up: each item is judged valid or invalid,  *)
(* or the body raises before it has judged the item (transform_ad or       *)
(* validate_record raise) and the loop is left.                            *)
(***************************************************************************)
MaxLoopItems == 102      \* items of the stream

LFrame == UNCHANGED <<ckVars, wVars, rlVars, vVars, qVars,
                      src, config, session, fa, coll, hist, caller>>

\* run() enters the loop
LStart ==
    /\ pc = "idle"
    /\ pc' = "loop"
    /\ UNCHANGED <<stats, exc>>
    /\ LFrame

\* one iteration: the item is counted, transformed, validated and routed
LItem(valid) ==
    /\ pc = "loop"
    /\ stats.records_fetched < MaxLoopItems
    /\ stats' = Counted(stats, valid)
    /\ UNCHANGED <<pc, exc>>
    /\ LFrame

\* "stats["records_fetched"] += 1", then transform_ad or validate_record
\* raise: "except Exception" records the error and the loop is over
LRaise ==
    /\ pc = "loop"
    /\ stats.records_fetched < MaxLoopItems
    /\ stats' = [stats EXCEPT !.records_fetched = @ + 1, !.error = "Exception"]
    /\ exc' = "Exception"
    /\ pc' = "finalize"
    /\ LFrame

LNext ==
    \/ LStart
    \/ \E valid \in BOOLEAN : LItem(valid)
    \/ LRaise

(***************************************************************************)
(* MetaAdCollector.transform_ad and validate_record                        *)
(* A raw item and a record are dicts over the keys read here; a key that   *)
(* is absent and a key that holds None read alike through dict.get, and    *)
(* both are None in the model.  The other fields of the record (content,   *)
(* targeting, raw_response, extracted_at) take no part in the validation.  *)
(***************************************************************************)
\* the strings that str.strip() empties
Blank == {"", " "}

\* s.strip(), for strings that are blank or carry no outer whitespace
StrStrip(s) == IF s \in Blank THEN "" ELSE s

\* str(value)
StrOf(v) ==
    CASE v[1] = "str" -> v[2]
      [] v[1] = "int" -> ToString(v[2])
      [] v[1] = "float" -> ToString(v[2])
      [] OTHER -> "None"

\* a range of the API: {"lower_bound": lower, "upper_bound": upper}, None
\* for a bound that is absent
PyRange(lower, upper) == <<"dict", lower, upper>>

\* float(text.replace(",", "")): the number, or ValueError
ParseFloat(text) ==
    CASE text = "100" -> [ok |-> TRUE, value |-> PyFloat(100)]
      [] text = "1,000" -> [ok |-> TRUE, value |-> PyFloat(1000)]
      [] OTHER -> [ok |-> FALSE, value |-> PyNone]

\* _parse_range: {"min", "max"}; a bound that does not parse leaves the
\* function through "except (ValueError, TypeError)" with what was set
\* before it
_parse_range(range_data) ==
    IF range_data = PyNone
    THEN [min |-> PyNone, max |-> PyNone]
    ELSE LET lower == range_data[2]
             upper == range_data[3]
             lo == ParseFloat(StrOf(lower))
             up == ParseFloat(StrOf(upper))
         IN IF lower # PyNone /\ ~lo.ok
            THEN [min |-> PyNone, max |-> PyNone]
            ELSE LET min == IF lower # PyNone THEN lo.value ELSE PyNone IN
                 IF upper # PyNone
                 THEN [min |-> min, max |-> IF up.ok THEN up.value ELSE PyNone]
                 ELSE [min |-> min, max |-> min]

\* transform_ad: the fields of the record that validate_record reads
transform_ad(raw_ad) ==
    LET spend_data == _parse_range(raw_ad.spend)
        impressions_data == _parse_range(raw_ad.impressions)
    IN [ad_id |-> raw_ad.id,
        platform |-> PyStr("meta"),
        advertiser_name |-> raw_ad.page_name,
        ad_creation_time |-> raw_ad.ad_creation_time,
        start_date |-> raw_ad.ad_delivery_start_time,
        end_date |-> raw_ad.ad_delivery_stop_time,
        spend_min |-> spend_data.min,
        spend_max |-> spend_data.max,
        impressions_min |-> impressions_data.min,
        impressions_max |-> impressions_data.max]

\* the tuple validate_record returns; the message is kept as its parts
Outcome(is_valid, error) == [is_valid |-> is_valid, error |-> error]

RECURSIVE _validate_required_fields(_, _)
\* "if value is None or (isinstance(value, str) and not value.strip())"
_validate_required_fields(record, required_fields) ==
    IF required_fields = <<>> THEN Outcome(TRUE, <<>>)
    ELSE LET field == Head(required_fields)
             value == record[field]
         IN IF value = PyNone \/ (value[1] = "str" /\ StrStrip(value[2]) = "")
            THEN Outcome(FALSE, <<"Missing or empty required field: ", field>>)
            ELSE _validate_required_fields(record, Tail(required_fields))

RequiredFields == <<"ad_id", "platform", "advertiser_name">>

DateFields == <<"start_date", "end_date", "ad_creation_time">>

\* datetime.fromisoformat(value.replace("Z", "+00:00")) returns: value is a
\* str in ISO format (an int has no replace: AttributeError)
IsoDates == {PyStr("2024-01-15T00:00:00Z")}

RECURSIVE FirstBadDate(_, _)
\* the first date field, in the order of the loop, that is truthy and does
\* not parse ("none": no one)
FirstBadDate(record, fields) ==
    IF fields = <<>> THEN "none"
    ELSE IF Truthy(record[Head(fields)]) /\ record[Head(fields)] \notin IsoDates
         THEN Head(fields)
         ELSE FirstBadDate(record, Tail(fields))

\* "if spend_min is not None and spend_max is not None: if spend_min >
\* spend_max"; validate_record compares no other pair
MinAboveMax(record) ==
    /\ record.spend_min # PyNone /\ record.spend_max # PyNone
    /\ record.spend_min[2] > record.spend_max[2]

validate_record(record) ==
    LET required == _validate_required_fields(record, RequiredFields) IN
    IF ~required.is_valid THEN required
    ELSE IF ~Truthy(record.ad_id) \/ StrStrip(StrOf(record.ad_id)) = ""
    THEN Outcome(FALSE, <<"ad_id", " is empty">>)
    ELSE IF record.platform # PyStr("meta")
    THEN Outcome(FALSE, <<"Invalid ", "platform", ": ", StrOf(record.platform)>>)
    ELSE IF FirstBadDate(record, DateFields) # "none"
    THEN Outcome(FALSE, <<"Invalid date format for ", FirstBadDate(record, DateFields)>>)
    ELSE IF MinAboveMax(record)
    THEN Outcome(FALSE, <<"spend_min", " > ", "spend_max">>)
    ELSE Outcome(TRUE, <<>>)

\* ---- the specification: one item, or one record, at a time ----
\* values of "id" and "page_name" in a raw item, of "ad_id" and
\* "advertiser_name" in a record
IdValues == {PyNone, PyStr(""), PyStr(" "), PyStr("123"), PyInt(123), PyInt(0)}

NameValues == {PyNone, PyStr(""), PyStr(" "), PyStr("P"), PyInt(456)}

PlatformValues == {PyNone, PyStr(""), PyStr("meta"), PyStr("google")}

DateValues == {PyNone, PyStr("2024-01-15T00:00:00Z"), PyStr("15/01/2024"), PyInt(7)}

\* a bound of a range of the API, and a range
BoundValues == {PyNone, PyStr("100"), PyStr("1,000"), PyStr("abc")}

RangeValues == {PyNone} \cup {PyRange(l, u) : l, u \in BoundValues}

\* spend_min, spend_max, impressions_min, impressions_max of a record
Amounts == {PyNone, PyFloat(100), PyFloat(1000)}

RawItems ==
    [id : IdValues, page_name : NameValues,
     spend : RangeValues, impressions : RangeValues,
     ad_creation_time : {PyNone},
     ad_delivery_start_time : DateValues \ {PyInt(7)},
     ad_delivery_stop_time : {PyNone}]

Records ==
    [ad_id : IdValues, platform : PlatformValues, advertiser_name : NameValues,
     ad_creation_time : {PyNone}, start_date : DateValues, end_date : {PyNone},
     spend_min : Amounts, spend_max : Amounts,
     impressions_min : Amounts, impressions_max : Amounts]

NotValidated == Outcome(FALSE, <<"not validated">>)

VInit ==
    /\ vOut = NotValidated
    /\ \/ /\ vRaw \in RawItems
          /\ vRec = PyNone
          /\ vPc = "raw"
       \/ /\ vRaw = PyNone
          /\ vRec \in Records
          /\ vPc = "record"

VFrame == UNCHANGED <<ckVars, wVars, rlVars, rVars, qVars>>

\* run(): transformed = self.transform_ad(raw_ad)
VTransform ==
    /\ vPc = "raw"
    /\ vRec' = transform_ad(vRaw)
    /\ vPc' = "record"
    /\ UNCHANGED <<vRaw, vOut>>
    /\ VFrame

\* is_valid, error = self.validate_record(transformed)
VValidate ==
    /\ vPc = "record"
    /\ vOut' = validate_record(vRec)
    /\ vPc' = "validated"
    /\ UNCHANGED <<vRaw, vRec>>
    /\ VFrame

\* run(): an invalid record is counted and skipped, a valid one is passed
\* to write_record
VRoute ==
    /\ vPc = "validated"
    /\ vPc' = IF vOut.is_valid THEN "written" ELSE "rejected"
    /\ UNCHANGED <<vRaw, vRec, vOut>>
    /\ VFrame

VNext ==
    \/ VTransform
    \/ VValidate
    \/ VRoute

(***************************************************************************)
(* fetch_ads with the attempts of _make_request                            *)
(*                                                                         *)
(* The loop of fetch_ads calls rate_limiter.wait_if_needed() and then      *)
(* _make_request(url, params).  _make_request is wrapped by tenacity's     *)
(* @retry: tenacity calls the function body again, with the same           *)
(* arguments, when it raised requests.RequestException or RateLimitError,  *)
(* sleeps wait_exponential between two attempts, and raises RetryError     *)
(* when the attempt stop_after_attempt names failed too.                   *)
(***************************************************************************)
\* the failed attempts explored in one run of fetch_ads
MaxFailedAttempts == 5

\* wait=wait_exponential(multiplier=1, min=4, max=60), seconds
WaitMultiplier == 1
WaitMin == 4
WaitMax == 60

Max(a, b) == IF a > b THEN a ELSE b

\* the sleep of tenacity after attempt number `attempt` failed, in seconds:
\* max(max(0, min), min(multiplier * 2 ** (attempt - 1), max))
wait_exponential(attempt) ==
    Max(Max(0, WaitMin), Min(WaitMultiplier * Pow(2, attempt - 1), WaitMax))

\* int(response.headers.get("Retry-After", 60))
RetryAfterDefault == 60

\* what one execution of the body of _make_request ends with: the page
\* (status 200), RateLimitError (error code 4 or 17, or status 429),
\* requests.RequestException (timeout, connection error), APIError (any
\* other error code)
AttemptOutcomes == {"ok", "throttled", "network", "api_error"}

\* a retry predicate that retries after every exception
RetriesEverything(outcome) == outcome # "ok"

\* retry=retry_if_exception_type((requests.RequestException, RateLimitError))
Retries(outcome) == outcome \in {"throttled", "network"}

\* a stop condition that never stops
StopsNever(attempt) == FALSE

\* stop=stop_after_attempt(5)
Stops(attempt) == attempt >= StopAfterAttempt

\* a retry that starts over without the cursor
RetryParamsWithoutCursor(after) == PyNone

\* params["after"] of a retry: tenacity passes the arguments of the call on
RetryParams(after) == after

Attempt(after, attempt, outcome) ==
    [after |-> after, attempt |-> attempt, outcome |-> outcome]

NewFetchAds ==
    [pc |-> "acquire",       \* acquire, attempt, done, failed
     after |-> PyNone,       \* params["after"]
     attempt |-> 0,          \* tenacity's attempt_number
     acquired |-> 0,         \* calls of wait_if_needed
     sent |-> 0,             \* _request_count
     backoff |-> 0,          \* clock units slept after failed attempts
     failures |-> 0,
     tries |-> <<>>,         \* the requests sent, in order
     yields |-> <<>>,
     err |-> "none"]

QInit ==
    /\ fqSrc \in [pages : Layouts]
    /\ fq = NewFetchAds

QFrame == UNCHANGED <<ckVars, wVars, rVars, vVars, rlLast, rlHist, fqSrc>>

\* self.rate_limiter.wait_if_needed(), then the call of _make_request
QAcquire ==
    /\ fq.pc = "acquire"
    /\ rl' = wait_if_needed(rl, now)
    /\ now' = now + WaitFor(rl, now)
    /\ fq' = [fq EXCEPT !.pc = "attempt", !.attempt = 1, !.acquired = @ + 1]
    /\ QFrame

\* the items of the page and the paging of fetch_ads after status 200
QPage(f, pages) ==
    LET p == PageFor(f.after)
        page == PageAt(pages, p)
        cursor == AfterOf(pages, p)
    IN [f EXCEPT !.yields = @ \o ItemsOfPages(pages, p, p),
                 !.pc = IF HasNextPage(page, cursor) THEN "acquire" ELSE "done",
                 !.after = IF HasNextPage(page, cursor) THEN cursor ELSE @,
                 !.attempt = 0]

\* tenacity after the body raised
QRaised(f, outcome) ==
    IF ~Retries(outcome)
    THEN [f EXCEPT !.pc = "failed", !.err = "APIError"]
    ELSE IF Stops(f.attempt)
    THEN [f EXCEPT !.pc = "failed", !.err = "RetryError"]
    ELSE [f EXCEPT !.attempt = @ + 1,
                   !.after = RetryParams(@),
                   !.backoff = @ + wait_exponential(f.attempt) * UnitsPerSecond]

\* the clock units handle_rate_limit_error(retry_after=retry_after) sleeps
QThrottleSleep ==
    IF BackoffRaises(rl, 1) THEN 0 ELSE BackoffFor(rl, RetryAfterDefault, 1)

\* one execution of the body of _make_request and what tenacity and
\* fetch_ads do with its result
QAttempt(outcome) ==
    /\ fq.pc = "attempt"
    /\ outcome \in {"throttled", "network"} => fq.failures < MaxFailedAttempts
    /\ LET sent == [fq EXCEPT !.sent = @ + 1,
                              !.tries = Append(@, Attempt(fq.after, fq.attempt, outcome)),
                              !.failures = @ + (IF outcome = "ok" THEN 0 ELSE 1)]
           slept == IF outcome = "throttled" THEN QThrottleSleep ELSE 0
           handled == [sent EXCEPT !.backoff = @ + slept]
       IN /\ fq' = IF outcome = "ok" THEN QPage(sent, fqSrc.pages)
                   ELSE QRaised(handled, outcome)
          /\ rl' = IF outcome = "throttled"
                   THEN handle_rate_limit_error(rl, now, RetryAfterDefault, 1)
                   ELSE rl
          /\ now' = now + slept + (fq'.backoff - handled.backoff)
    /\ QFrame

QNext ==
    \/ QAcquire
    \/ \E outcome \in AttemptOutcomes : QAttempt(outcome)

QIdle ==
    /\ fqSrc = [pages |-> CHOOSE pages \in Layouts : TRUE]
    /\ fq = NewFetchAds

\* the parts of the state a specification leaves alone
WIdle ==
    /\ w = NewWriter(1, 1)
    /\ wDisk = <<>>
    /\ wManifests = <<>>
    /\ wLast = WOutcome("init", "ok")
    /\ wFaults = 0
    /\ wHist = [writes |-> 0, shape |-> "writes"]

CkIdle ==
    /\ CkInit
    /\ ckMode = "local"

RlIdle ==
    /\ now = 0
    /\ rl = NewRateLimiter(CHOOSE cfg \in RlConfigs : cfg.requests_per_minute = 60, 0)
    /\ rlLast = RlOutcome("init", 0, FALSE)
    /\ rlHist = [ticks |-> 0, throttles |-> 0, only_wait |-> TRUE]

RIdle ==
    /\ src = [pages |-> <<[n |-> 1, after |-> TRUE, next |-> FALSE]>>, invalid |-> {},
              token_ok |-> TRUE]
    /\ config = [checkpoint_interval |-> 1, batch_size |-> 1, dry_run |-> FALSE]
    /\ session = [no |-> "first", end1 |-> "none"]
    /\ pc = "idle"
    /\ fa = NewFetch
    /\ coll = NewCollector
    /\ stats = NewStats
    /\ exc = "none"
    /\ hist = NewHist
    /\ caller = NewCaller("run")

VIdle ==
    /\ vRaw = PyNone
    /\ vRec = PyNone
    /\ vOut = NotValidated
    /\ vPc = "idle"

InitCk == CkInit /\ WIdle /\ RlIdle /\ RIdle /\ VIdle /\ QIdle

SpecCk == InitCk /\ [][CkNext]_vars

InitW == CkIdle /\ RlIdle /\ RIdle /\ VIdle /\ QIdle /\ WInit

SpecW == InitW /\ [][WNext]_vars

InitRL == CkIdle /\ WIdle /\ RIdle /\ VIdle /\ QIdle /\ RlInit

SpecRL == InitRL /\ [][RlNext]_vars

InitV == CkIdle /\ WIdle /\ RlIdle /\ RIdle /\ QIdle /\ VInit

SpecV == InitV /\ [][VNext]_vars

Init == CkIdle /\ VIdle /\ QIdle /\ RInit

InitFetch == CkIdle /\ WIdle /\ RlIdle /\ RIdle /\ VIdle /\ QInit

SpecFetch == InitFetch /\ [][QNext]_vars

InitLoop == CkIdle /\ WIdle /\ RlIdle /\ RIdle /\ VIdle /\ QIdle

SpecLoop == InitLoop /\ [][LNext]_vars

Spec == Init /\ [][Next]_vars

(***************************************************************************)
(* Properties of the checkpoint store                                      *)
(***************************************************************************)
\* a checkpoint without the two keys save() sets itself
StripStamp(d) == [k \in DOMAIN d \ {"last_update", "platform"} |-> d[k]]

\* the canonical location holds something that is no checkpoint object
CkIsCorrupt(f) == f.exists /\ json_loads(f.text).kind # "dict"

\* C7 -- Checkpoint round-trip: a load() that follows a successful save(c)
\* returns c field for field, plus last_update and the store's platform tag.
C7_RoundTrip ==
    (ckLast.op = "load" /\ ckHist.saved) =>
        /\ ckLast.kind = "data"
        /\ StripStamp(ckLast.data) = StripStamp(ckHist.arg)
        /\ {"last_update", "platform"} \subseteq DOMAIN ckLast.data
        /\ ckLast.data["platform"] = PyStr(Platform)

C7_Witness ==
    /\ ckLast.op = "load"
    /\ ckHist.saved
    /\ ckLast.kind = "data"
    /\ "cursor" \in DOMAIN ckHist.arg
    /\ ckHist.arg["cursor"] = PyNone
    /\ "records_processed" \in DOMAIN ckLast.data

\* C8 -- Corruption resilience: load() on a location whose content is corrupt
\* or is no checkpoint object (cut short, no JSON, no UTF-8, JSON that is no
\* object) returns None and does not raise, and so get_cursor, save_cursor and
\* update_progress do not raise either.
C8_CorruptLoadsAbsent ==
    /\ (ckLast.op = "load" /\ CkIsCorrupt(ckFile)) => ckLast.kind = "none"
    /\ ckLast.op \in {"get_cursor", "save_cursor", "update_progress"} => ckLast.kind # "load_raised"

\* C9 -- Atomic save: from the moment a save() begins, whether it completes,
\* fails or the process dies inside it, the canonical location holds the
\* complete previous content or the complete new checkpoint, and after a
\* successful save the new checkpoint is in place and no staging file is left.
C9_AtomicSave ==
    /\ ckHist.tracking => ckFile \in {ckHist.prev, ckHist.new}
    /\ (ckHist.tracking /\ ckPc = "writing" /\ ckMode = "local") => ckFile = ckHist.prev
    /\ ckHist.saved => (ckFile = ckHist.new /\ ~ckTmp.exists)

C9_Witness ==
    /\ ckLast.op = "crash"
    /\ ckMode = "local"
    /\ ckTmp.exists
    /\ Len(ckTmp.text) > 0
    /\ Len(ckTmp.text) < Len(ckText)
    /\ ckHist.prev.exists
    /\ ckHist.prev # ckHist.new
    /\ ckFile = ckHist.prev

(***************************************************************************)
(* Properties of the output writer                                         *)
(***************************************************************************)
RECURSIVE RecordsIn(_, _, _)
\* the number of records in those of the files  disk[1..i]  that  names  lists
RecordsIn(disk, i, names) ==
    IF i = 0 THEN 0
    ELSE (IF \E j \in 1..Len(names) : names[j] = disk[i].name
          THEN Len(disk[i].records) ELSE 0) + RecordsIn(disk, i - 1, names)

LastManifest == wManifests[Len(wManifests)]

\* C3 -- Batching exactness: N write_record calls and then finalize, on a
\* storage that accepts every write, leave ceil(N/B) batch files, each of B
\* records except the last, which has N mod B (B when B divides N), and the
\* manifest says total_records = N.
C3_BatchingExact ==
    wHist.shape = "finalized" =>
        LET N == wHist.writes
            B == w.batch_size
            k == Len(wDisk)
        IN /\ k = (N + B - 1) \div B
           /\ \A i \in 1..k :
                Len(wDisk[i].records) =
                    IF i < k THEN B ELSE IF N % B = 0 THEN B ELSE N % B
           /\ LastManifest.total_records = N

C3_Witness ==
    /\ wHist.shape = "finalized"
    /\ wHist.writes >= 4
    /\ w.batch_size >= 2
    /\ wHist.writes % w.batch_size # 0
    /\ Len(wDisk) >= 2

\* C4 -- Every manifest finalize returns has total_records equal to the number
\* of records in the batch files of the run (the files the manifest lists,
\* which are the files whose write completed), after any sequence of
\* write_record, write_records and flush_batch calls, also when an earlier
\* flush raised OutputError.
C4_ManifestTotal ==
    (wLast.op = "finalize" /\ wLast.kind = "manifest") =>
        /\ LastManifest.total_records = RecordsIn(wDisk, Len(wDisk), LastManifest.batch_files)
        /\ \A i \in 1..Len(wDisk) :
              wDisk[i].complete <=>
                  \E j \in 1..Len(LastManifest.batch_files) :
                      LastManifest.batch_files[j] = wDisk[i].name

C4_Witness ==
    /\ wLast.op = "finalize"
    /\ wLast.kind = "manifest"
    /\ w.batch_count > Len(w.batch_files)
    /\ \E i \in 1..Len(wDisk) : ~wDisk[i].complete /\ Len(wDisk[i].records) >= 1
    /\ LastManifest.total_records >= 2
    /\ Len(wDisk) >= 2

(***************************************************************************)
(* Properties of the rate limiter                                          *)
(***************************************************************************)
\* the acquisitions completed in the 60 seconds that end with the i-th one
InWindow(h, i) ==
    {j \in 1..Len(h) : h[j] > h[i] - StatsWindowSeconds * UnitsPerSecond /\ h[j] <= h[i]}

\* C6 -- Token bucket bound: under any sequence of wait_if_needed calls at any
\* times the token count stays within [0, burst], and no 60-second window
\* holds more than requests_per_minute + burst completed acquisitions.
C6_TokenBucketBound ==
    rlHist.only_wait =>
        /\ rl.tokens >= 0
        /\ rl.tokens <= rl.burst * TokenScale
        /\ \A i \in 1..Len(rl.request_history) :
              Cardinality(InWindow(rl.request_history, i))
                  <= rl.requests_per_minute + rl.burst


(***************************************************************************)
(* Properties of an extraction across a restart  (Spec)                    *)
(***************************************************************************)
\* the records in the batch files whose write completed
Flushed ==
    UNION { { wDisk[i].records[j] : j \in 1..Len(wDisk[i].records) } :
            i \in {k \in 1..Len(wDisk) : wDisk[k].complete} }

\* the second run went through the pagination to its end and returned
ResumedToEnd ==
    /\ session.no = "resumed"
    /\ pc = "ended"
    /\ hist.outcome = "returned"
    /\ ~stats.interrupted

\* records_processed of the checkpoint file
RecordsProcessed(f) == IntOf(DictGet(load(f).data, "records_processed", PyInt(0)))

\* C1 -- At-least-once delivery across a restart: when the first run was
\* interrupted or crashed and the second run, resumed from the checkpoint,
\* reached the end of the pagination, every item of the source that passes
\* validation is in a batch file of one of the two runs.
C1_AtLeastOnce ==
    (ResumedToEnd /\ session.end1 \in {"crash", "interrupt"} /\ ~config.dry_run) =>
        \A item \in AllItems(src.pages) : IsValid(item) => item \in Flushed

\* C2 -- Within one run, of two consecutive checkpoint saves of fetch_ads
\* (save_cursor, or the final update_progress) the later one never stores a
\* smaller records_processed than the earlier one, also in a run that
\* started from the checkpoint of an earlier run.
C2_RecordsProcessedMonotone ==
    [][(hist.saves >= 1 /\ hist'.saves = hist.saves + 1)
          => RecordsProcessed(ckFile') >= RecordsProcessed(ckFile)]_vars

\* every page of the source carries paging.cursors.after
EveryPageHasAfter == \A p \in 1..Len(src.pages) : src.pages[p].after

\* the first request of a resumed run asks for the page after the saved cursor
StartsFromSavedCursor ==
    (session.no = "resumed" /\ pc = "request" /\ fa.page_count = 0) =>
        fa.after = (IF Truthy(get_cursor(ckFile)) THEN get_cursor(ckFile) ELSE PyNone)

\* C5 (as stated) -- Bounded duplication on resume: a stream resumed after a
\* crash starts from the saved cursor and yields at most checkpoint_interval
\* items that the crashed run had yielded.
C5_BoundedDuplication ==
    session.end1 = "crash" =>
        /\ StartsFromSavedCursor
        /\ hist.dup <= config.checkpoint_interval

\* C5 (amended) -- the same, for a source whose every page carries an
\* `after` cursor: a page without one is never checkpointed, and what was
\* yielded from it is yielded again in full.
C5_BoundedDuplicationWithCursors ==
    (session.end1 = "crash" /\ EveryPageHasAfter) =>
        /\ StartsFromSavedCursor
        /\ hist.dup <= config.checkpoint_interval

\* a run resumed after a crash from a saved cursor that yielded an item again
C5_Witness ==
    /\ session.end1 = "crash"
    /\ EveryPageHasAfter
    /\ fa.page >= 2
    /\ hist.dup >= 1
    /\ pc = "ended"

\* C10 -- When the stream or the writer raised while streaming, run() calls
\* finalize() and the exception that reaches the caller is the one that was
\* raised while streaming, not one raised by finalize().
C10_ReraisesOriginal ==
    (pc = "ended" /\ exc # "none" /\ ~config.dry_run) =>
        /\ hist.finalize_calls = 1
        /\ hist.outcome = "raised"
        /\ hist.raised = exc

\* the running process has sent no fetch request and has written nothing
NoRequestNoOutput ==
    /\ coll.request_count = 0
    /\ hist.finalize_calls = 0
    /\ w.current_batch = <<>> /\ w.batch_count = 0 /\ w.total_records = 0
    /\ ~stats.manifest
    /\ session.no = "first" => (wDisk = <<>> /\ wManifests = <<>>)

CheckpointStatus(f) == DictGet(load(f).data, "status", PyNone)

\* the interrupt and every step after it send no request, consume no item
\* and leave the checkpoint file as it is
InterruptStopsTheStream ==
    stats'.interrupted =>
        /\ ckFile' = ckFile
        /\ coll'.request_count = coll.request_count
        /\ stats'.records_fetched = stats.records_fetched
        /\ fa' = fa

ValidOf(items) == SelectSeq(items, IsValid)

IsInvalid(item) == ~IsValid(item)

InvalidOf(items) == SelectSeq(items, IsInvalid)

\* the step that consumes one yielded item
ConsumesItem == stats'.records_fetched = stats.records_fetched + 1

\* C13 -- Validation routing in run(): an item judged invalid is counted as
\* invalid, is not passed to write_record and does not end the run (the
\* generator is resumed for the next item); an item judged valid is counted
\* as valid and, unless dry_run, is passed to write_record exactly once.
C13_ValidationRouting ==
    /\ [](/\ stats.records_invalid = Len(InvalidOf(hist.yields))
          /\ stats.records_valid = Len(ValidOf(hist.yields))
          /\ hist.write_calls = (IF config.dry_run THEN <<>> ELSE ValidOf(hist.yields)))
    /\ [][ConsumesItem =>
            IF IsValid(CurrentItem)
            THEN /\ stats'.records_valid = stats.records_valid + 1
                 /\ stats'.records_invalid = stats.records_invalid
                 /\ hist'.write_calls = (IF config.dry_run THEN hist.write_calls
                                         ELSE Append(hist.write_calls, CurrentItem))
            ELSE /\ stats'.records_invalid = stats.records_invalid + 1
                 /\ stats'.records_valid = stats.records_valid
                 /\ UNCHANGED <<w, wDisk, exc>>
                 /\ hist'.write_calls = hist.write_calls
                 /\ pc' = "resume"]_vars

\* a run that wrote output met an invalid item, went on, and wrote the
\* valid item after it
C13_Witness ==
    /\ ~config.dry_run
    /\ Len(InvalidOf(hist.yields)) >= 1
    /\ Len(hist.yields) >= 3
    /\ IsValid(hist.yields[Len(hist.yields)])
    /\ hist.write_calls = ValidOf(hist.yields)
    /\ Len(hist.write_calls) >= 2

\* validate_record has returned for vRec
Validated == vPc \in {"validated", "written", "rejected"}

\* a field that is missing (None) or an empty string (one of whitespace
\* counts as empty)
MissingOrEmpty(record, field) ==
    \/ record[field] = PyNone
    \/ record[field][1] = "str" /\ StrStrip(record[field][2]) = ""

\* the message names the field
Names(error, field) == \E i \in 1..Len(error) : error[i] = field

\* both bounds are numbers and the minimum exceeds the maximum
BoundsCrossed(record, lo, hi) ==
    /\ record[lo] # PyNone /\ record[hi] # PyNone
    /\ record[lo][2] > record[hi][2]

\* what validate_record does check: required fields, with the first missing
\* one named in the reason, and the spend pair
RequiredFieldsAndSpendChecked ==
    Validated =>
        /\ (\E f \in {"ad_id", "platform", "advertiser_name"} : MissingOrEmpty(vRec, f)) =>
              /\ ~vOut.is_valid
              /\ \E f \in {"ad_id", "platform", "advertiser_name"} :
                    MissingOrEmpty(vRec, f) /\ Names(vOut.error, f)
        /\ BoundsCrossed(vRec, "spend_min", "spend_max") => ~vOut.is_valid

\* C14 -- validate_record: a record whose required field (ad_id, platform or
\* advertiser_name) is missing or empty is invalid with a reason naming that
\* field, and a record whose minimum bound exceeds its paired maximum, for
\* the spend pair and for the impressions pair, is invalid.
C14_ValidationCorrectness ==
    Validated =>
        /\ (\E f \in {"ad_id", "platform", "advertiser_name"} : MissingOrEmpty(vRec, f)) =>
              /\ ~vOut.is_valid
              /\ \E f \in {"ad_id", "platform", "advertiser_name"} :
                    MissingOrEmpty(vRec, f) /\ Names(vOut.error, f)
        /\ BoundsCrossed(vRec, "spend_min", "spend_max") => ~vOut.is_valid
        /\ BoundsCrossed(vRec, "impressions_min", "impressions_max") => ~vOut.is_valid

\* the step that sends the first request of a run
FirstRequest == hist.afters = <<>> /\ hist'.afters # <<>>

\* C15 -- Resume uses the saved cursor: the first request of a run carries
\* as `after` the cursor of the checkpoint that exists when fetch_ads starts,
\* and carries no `after` when there is no checkpoint or its cursor is empty.
C15_ResumeUsesSavedCursor ==
    [][FirstRequest =>
          hist'.afters[1] = (IF get_cursor(ckFile) \in {PyNone, PyStr("")}
                             THEN PyNone ELSE get_cursor(ckFile))]_vars

\* a resumed run whose first request carried the saved cursor
C15_Witness ==
    /\ session.no = "resumed"
    /\ hist.afters # <<>>
    /\ hist.afters[1] # PyNone
    /\ hist.afters[1] = PyStr(CursorNames[1])

\* fetch_ads has left its loop by a break, and run() met no error and no
\* interrupt
EndOfPagination ==
    \/ pc = "final_checkpoint"
    \/ pc \in {"finalize", "ended"} /\ exc = "none" /\ ~stats.interrupted

CompletionSaved ==
    /\ pc \in {"finalize", "ended"}
    /\ exc = "none"
    /\ ~stats.interrupted

\* C17 -- After fetch_ads reached the end of pagination, the cursor of the
\* checkpoint in the store is not the `after` cursor of a page that has a
\* next page.
C17_FinalCursorNotStale ==
    CompletionSaved =>
        /\ CheckpointStatus(ckFile) = PyStr("completed")
        /\ \A p \in 1..Len(src.pages) :
              src.pages[p].next => get_cursor(ckFile) # AfterOf(src.pages, p)

\* what the validation does ensure of a record passed to write_record: its
\* required fields are not None and not blank strings, and platform is "meta"
WrittenRecordsHaveRequiredFields ==
    vPc = "written" =>
        /\ \A f \in {"ad_id", "platform", "advertiser_name"} : ~MissingOrEmpty(vRec, f)
        /\ vRec.platform = PyStr("meta")

\* C18 -- Every record that run() passes to write_record has non-empty
\* strings as ad_id, platform and advertiser_name.
C18_WrittenRecordsCanonical ==
    vPc = "written" =>
        \A f \in {"ad_id", "platform", "advertiser_name"} :
            vRec[f][1] = "str" /\ vRec[f][2] # ""

\* the manifests in storage that carry the extraction id of the running
\* process
ManifestsOfRun ==
    Cardinality({i \in 1..Len(wManifests) : wManifests[i].extraction_id = w.extraction_id})

\* C19 (as stated) -- however a run that writes output ends (stream
\* exhausted, interrupted, or failed with an exception), finalize() has been
\* called exactly once and exactly one manifest has been produced.
C19_OneManifestPerRun ==
    (pc = "ended" /\ ~config.dry_run) =>
        /\ hist.finalize_calls = 1
        /\ ManifestsOfRun = 1

\* C19 (amended) -- finalize() is called exactly once, when run() ends, and
\* it produces exactly one manifest unless it raises OutputError, in which
\* case the run has none; before the end, and in dry-run mode, there is no
\* finalize call and no manifest.
C19_OneFinalizePerRun ==
    /\ (pc # "ended" \/ config.dry_run) =>
          (hist.finalize_calls = 0 /\ ManifestsOfRun = 0 /\ ~stats.manifest)
    /\ (pc = "ended" /\ ~config.dry_run) =>
          /\ hist.finalize_calls = 1
          /\ ManifestsOfRun = (IF hist.raised = "OutputError in finalize" THEN 0 ELSE 1)
          /\ stats.manifest = (ManifestsOfRun = 1)

\* a run that failed with an exception while streaming ended with its one
\* manifest
C19_Witness ==
    /\ pc = "ended"
    /\ ~config.dry_run
    /\ exc = "APIError"
    /\ stats.records_fetched >= 1
    /\ hist.finalize_calls = 1
    /\ ManifestsOfRun = 1

\* C20 -- In dry-run mode run() calls neither write_record nor finalize: the
\* writer's buffer, batch count and record count stay as constructed, no
\* batch file and no manifest is produced, and the summary run() returns
\* has the fetched, valid and invalid counts and no manifest.
C20_DryRunWritesNothing ==
    config.dry_run =>
        /\ hist.write_calls = <<>>
        /\ hist.finalize_calls = 0
        /\ w.current_batch = <<>> /\ w.batch_count = 0 /\ w.total_records = 0
        /\ w.batch_files = <<>>
        /\ wDisk = <<>> /\ wManifests = <<>>
        /\ ~stats.manifest
        /\ (pc = "ended" /\ hist.outcome = "returned") =>
              /\ stats.records_fetched = Len(hist.yields)
              /\ stats.records_valid = Len(ValidOf(hist.yields))
              /\ stats.records_invalid = Len(InvalidOf(hist.yields))

\* a dry run over valid and invalid items returned its summary
C20_Witness ==
    /\ config.dry_run
    /\ pc = "ended"
    /\ hist.outcome = "returned"
    /\ ~stats.interrupted
    /\ stats.records_valid >= 2
    /\ stats.records_invalid >= 1

(***************************************************************************)
(* Properties of fetch_ads and the attempts of _make_request               *)
(***************************************************************************)
\* C21 -- Every request fetch_ads sends, each retry attempt inside
\* _make_request included, is preceded by its own wait_if_needed() call:
\* the number of acquisitions is never smaller than the number of requests
\* sent.
C21_AcquiredBeforeEveryRequest ==
    /\ fq.acquired >= fq.sent
    /\ rl.total_requests >= fq.sent

\* C22 -- A request that is throttled or fails with a transient network
\* error on every attempt is sent at most stop_after_attempt (5) times by
\* _make_request; after the fifth failed attempt the error leaves fetch_ads
\* (as tenacity's RetryError) and no further request is sent.
C22_BoundedRetry ==
    /\ fq.attempt <= StopAfterAttempt
    /\ \A i \in 1..Len(fq.tries) :
          /\ fq.tries[i].attempt \in 1..StopAfterAttempt
          /\ (fq.tries[i].outcome \in {"throttled", "network"}
                /\ fq.tries[i].attempt = StopAfterAttempt)
             => /\ i = Len(fq.tries)
                /\ fq.pc = "failed"
                /\ fq.err = "RetryError"
    /\ fq.err = "RetryError"
       => /\ fq.pc = "failed"
          /\ Len(fq.tries) >= StopAfterAttempt
          /\ \A k \in 0..(StopAfterAttempt - 1) :
                LET t == fq.tries[Len(fq.tries) - k]
                IN /\ t.attempt = StopAfterAttempt - k
                   /\ t.outcome \in {"throttled", "network"}
                   /\ t.after = fq.tries[Len(fq.tries)].after
    /\ fq.pc = "failed" => ~ENABLED QNext

\* the second page's request failed five times, by throttling and by
\* network errors, and fetch_ads raised
C22_Witness ==
    /\ fq.err = "RetryError"
    /\ fq.tries[Len(fq.tries)].after # PyNone
    /\ \E i, j \in 1..Len(fq.tries) :
          /\ fq.tries[i].outcome = "throttled" /\ fq.tries[j].outcome = "network"
          /\ fq.tries[i].after # PyNone /\ fq.tries[j].after # PyNone

\* the requests that were answered with a page
Answered == SelectSeq(fq.tries, LAMBDA t : t.outcome = "ok")

\* the `after` parameter of the request for page p of a run from the start
AfterFor(pages, p) == IF p = 1 THEN PyNone ELSE AfterOf(pages, p - 1)

\* C23 -- When every request of the run is answered before the retry bound
\* is reached, however many of its attempts were throttled or failed with a
\* network error first, every retry carries the same `after` parameter as
\* the attempt before it, fetch_ads ends without an error, and it yields
\* exactly the items of a run without failures: one page per answered
\* request, in order, no page skipped or fetched twice.
C23_AbsorbedFailures ==
    /\ \A i \in 2..Len(fq.tries) :
          fq.tries[i].attempt > 1 => fq.tries[i].after = fq.tries[i - 1].after
    /\ \A i \in 1..Len(Answered) :
          Answered[i].after = AfterFor(fqSrc.pages, i)
    /\ fq.yields = ItemsOfPages(fqSrc.pages, 1, Len(Answered))
    /\ fq.pc = "done"
       => /\ fq.err = "none"
          /\ Len(Answered) = LastPageFrom(fqSrc.pages, 1)
          /\ fq.yields = ItemsOfPages(fqSrc.pages, 1, Len(fqSrc.pages))

\* both pages were fetched after failed attempts of both kinds, the second
\* page after more than one
C23_Witness ==
    /\ fq.pc = "done"
    /\ Len(fqSrc.pages) = 2
    /\ \E i, j \in 1..Len(fq.tries) :
          /\ fq.tries[i].outcome = "throttled" /\ fq.tries[i].after = PyNone
          /\ fq.tries[j].outcome = "network" /\ fq.tries[j].after # PyNone
    /\ \E i \in 1..Len(fq.tries) :
          fq.tries[i].outcome = "ok" /\ fq.tries[i].attempt >= 3 /\ fq.tries[i].after # PyNone

\* the step is an attempt answered with a non-retryable error code
ApiErrorStep ==
    /\ Len(fq'.tries) = Len(fq.tries) + 1
    /\ fq'.tries[Len(fq'.tries)].outcome = "api_error"

\* the requests sent with the params of the last one
SendsOfLastRequest ==
    Cardinality({i \in 1..Len(fq.tries) :
                    fq.tries[i].after = fq.tries[Len(fq.tries)].after})

\* APIError follows an attempt answered with a non-retryable error code and
\* nothing else; that attempt is the last request sent, and its request was
\* sent once when the error answered its first attempt
ApiErrorIsLast ==
    /\ fq.err = "APIError"
       <=> (Len(fq.tries) > 0 /\ fq.tries[Len(fq.tries)].outcome = "api_error")
    /\ \A i \in 1..Len(fq.tries) :
          fq.tries[i].outcome = "api_error"
          => /\ i = Len(fq.tries)
             /\ fq.pc = "failed"
             /\ ~ENABLED QNext
             /\ SendsOfLastRequest = fq.tries[i].attempt

\* C24 -- An attempt answered with a non-retryable error code (APIError)
\* makes fetch_ads fail at once: the request is not sent again, nothing
\* sleeps after it (neither handle_rate_limit_error nor tenacity), the
\* limiter is left as it was, and APIError leaves fetch_ads.
C24_ApiErrorFailsAtOnce ==
    /\ []ApiErrorIsLast
    /\ [][ApiErrorStep
          => /\ fq'.pc = "failed"
             /\ fq'.err = "APIError"
             /\ fq'.sent = fq.sent + 1
             /\ fq'.backoff = fq.backoff
             /\ now' = now
             /\ rl' = rl
             /\ fq'.yields = fq.yields]_vars

\* the request of the second page was answered with a non-retryable error
\* code on its first attempt
C24_Witness ==
    /\ fq.err = "APIError"
    /\ fq.tries[Len(fq.tries)].attempt = 1
    /\ fq.tries[Len(fq.tries)].after # PyNone
    /\ fq.sent = 2

(***************************************************************************)
(* Properties of the rate limiter's calls                                  *)
(***************************************************************************)
\* C25 -- handle_rate_limit_error with attempt > max_retries raises
\* RateLimitError without sleeping and leaves the limiter as it was
\* (tokens, rate_limit_errors, total_wait_time and every other field); with
\* attempt <= max_retries it does not raise.
C25_RaisesPastMaxRetries ==
    [][\A ra \in RetryAfters, a \in Attempts :
          RlHandleRateLimitError(ra, a)
          => IF a > rl.max_retries
             THEN /\ rlLast'.raised
                  /\ now' = now
                  /\ rl'.tokens = rl.tokens
                  /\ rl'.rate_limit_errors = rl.rate_limit_errors
                  /\ rl'.total_wait_time = rl.total_wait_time
                  /\ rl' = rl
             ELSE ~rlLast'.raised]_vars

\* on a limiter with max_retries 2 whose bucket was partly drained, the
\* call with an attempt past max_retries raised
C25_Witness ==
    /\ rl.max_retries = 2
    /\ rlLast.op = "handle_rate_limit_error"
    /\ rlLast.raised
    /\ rl.total_requests > 0
    /\ rl.tokens < rl.burst * TokenScale

\* the sleep the statement names, in clock units
ExpectedBackoff(r, ra, a) ==
    IF ra >= 0 THEN ra * UnitsPerSecond
    ELSE IF a = 1 THEN r.initial_retry_delay * UnitsPerSecond
    ELSE IF a = 2 THEN r.initial_retry_delay * r.backoff_multiplier * UnitsPerSecond
    ELSE r.initial_retry_delay * r.backoff_multiplier * r.backoff_multiplier
             * UnitsPerSecond

\* C26 -- handle_rate_limit_error with attempt <= max_retries sleeps
\* retry_after seconds when retry_after is given, otherwise
\* initial_retry_delay * backoff_multiplier^(attempt - 1) seconds; it returns
\* that wait, adds it to total_wait_time, adds exactly one to
\* rate_limit_errors and leaves the bucket full (tokens = burst).
C26_BackoffWait ==
    [][\A ra \in RetryAfters, a \in Attempts :
          (RlHandleRateLimitError(ra, a) /\ a <= rl.max_retries)
          => /\ rlLast'.wait = ExpectedBackoff(rl, ra, a)
             /\ now' = now + ExpectedBackoff(rl, ra, a)
             /\ rl'.total_wait_time = rl.total_wait_time + ExpectedBackoff(rl, ra, a)
             /\ rl'.rate_limit_errors = rl.rate_limit_errors + 1
             /\ rl'.tokens = rl.burst * TokenScale
             /\ rl'.total_requests = rl.total_requests]_vars

\* the second attempt without retry_after waited 3 * 2 seconds and refilled
\* a drained bucket
C26_Witness ==
    /\ rl.max_retries = 2
    /\ rl.initial_retry_delay = 3
    /\ rlLast.op = "handle_rate_limit_error"
    /\ ~rlLast.raised
    /\ rlLast.wait = 6 * UnitsPerSecond
    /\ rl.total_requests = 2
    /\ rl.tokens = rl.burst * TokenScale

\* tokens after the refill of a call at the present time, in 1/TokenScale
TokensNow ==
    IF rl.tokens + (now - rl.last_update) * rl.requests_per_minute
         > rl.burst * TokenScale
    THEN rl.burst * TokenScale
    ELSE rl.tokens + (now - rl.last_update) * rl.requests_per_minute

\* C27 -- wait_if_needed returns 0 and does not sleep when, after the lazy
\* refill, at least one token is available, and takes that token; otherwise
\* it sleeps and returns (1 - tokens) / refill rate and leaves the bucket at
\* 0 tokens.  With requests_per_minute = 60 and burst = 1 the second of two
\* back-to-back calls waits one second.
C27_WaitIfNeeded ==
    [][RlWaitIfNeeded
        => /\ IF TokensNow >= TokenScale
              THEN /\ rlLast'.wait = 0
                   /\ now' = now
                   /\ rl'.tokens = TokensNow - TokenScale
              ELSE /\ rlLast'.wait > 0
                   /\ rlLast'.wait * rl.requests_per_minute = TokenScale - TokensNow
                   /\ now' = now + rlLast'.wait
                   /\ rl'.tokens = 0
           /\ rl'.total_wait_time = rl.total_wait_time + rlLast'.wait
           /\ (rl.requests_per_minute = 60 /\ rl.burst = 1
                 /\ rl.total_requests = 1 /\ now = 0 /\ rlHist.only_wait)
              => rlLast'.wait = UnitsPerSecond]_vars

\* the second of two back-to-back calls at 60 per minute, burst 1, waited
\* one second
C27_Witness ==
    /\ rl.requests_per_minute = 60
    /\ rl.burst = 1
    /\ rl.total_requests = 2
    /\ rlHist.ticks = 0
    /\ rlHist.only_wait
    /\ rlLast.op = "wait_if_needed"
    /\ rlLast.wait = UnitsPerSecond
    /\ rl.tokens = 0

(***************************************************************************)
(* Properties of the batch files and the manifest                          *)
(***************************************************************************)
\* the batch files whose write completed, in the order they were written
RECURSIVE CompleteFiles(_, _)
CompleteFiles(disk, i) ==
    IF i = 0 THEN <<>>
    ELSE IF disk[i].complete
    THEN Append(CompleteFiles(disk, i - 1), disk[i].name)
    ELSE CompleteFiles(disk, i - 1)

\* C28 -- Batch sequence numbers: after any sequence of write_record,
\* write_records, flush_batch and finalize calls the batch files of the run
\* are numbered 1, 2, 3, ... in flush order with no gap and no repeat, and
\* the k-th file a manifest lists carries sequence number k.
C28_SequenceNumbers ==
    /\ \A k \in 1..Len(w.batch_files) : w.batch_files[k].seq = k
    /\ \A k \in 1..Len(CompleteFiles(wDisk, Len(wDisk))) :
          CompleteFiles(wDisk, Len(wDisk))[k].seq = k
    /\ \A m \in 1..Len(wManifests) :
          \A k \in 1..Len(wManifests[m].batch_files) :
              wManifests[m].batch_files[k].seq = k

\* C29 -- finalize() flushes the buffered remainder and returns a manifest
\* whose batch_files is the ordered list of every batch file written in the
\* run and whose total_batches equals the length of that list.
C29_ManifestListsBatches ==
    (wLast.op = "finalize" /\ wLast.kind = "manifest")
    => /\ w.current_batch = <<>>
       /\ LastManifest.batch_files = CompleteFiles(wDisk, Len(wDisk))
       /\ LastManifest.total_batches = Len(LastManifest.batch_files)

\* C30 -- Automatic flush: after every write_record call that returns
\* normally the buffer holds fewer than batch_size records; the call flushes
\* exactly when the record makes the buffer reach batch_size, and then the
\* whole buffer goes into one batch file.
C30_AutomaticFlush ==
    [][\A wr \in WriteOutcomes :
          (WWriteRecord(wr) /\ wLast'.kind # "OutputError")
          => /\ Len(w'.current_batch) < w'.batch_size
             /\ IF Len(w.current_batch) + 1 >= w.batch_size
                THEN /\ w'.current_batch = <<>>
                     /\ Len(wDisk') = Len(wDisk) + 1
                     /\ wDisk'[Len(wDisk')].records
                           = Append(w.current_batch, wHist.writes + 1)
                     /\ wDisk'[Len(wDisk')].complete
                     /\ Len(w'.batch_files) = Len(w.batch_files) + 1
                ELSE /\ w'.current_batch = Append(w.current_batch, wHist.writes + 1)
                     /\ wDisk' = wDisk
                     /\ w'.batch_files = w.batch_files]_vars

\* with batch_size 2, the second and the fourth write_record each flushed a
\* batch of two and left the buffer empty
C30_Witness ==
    /\ w.batch_size = 2
    /\ wLast.op = "write_record"
    /\ wLast.kind # "OutputError"
    /\ wHist.shape = "writes"
    /\ wHist.writes = 4
    /\ Len(wDisk) = 2
    /\ w.current_batch = <<>>

(***************************************************************************)
(* Properties of single writer calls                                       *)
(***************************************************************************)
\* C31 -- flush_batch on an empty buffer is a no-op: it returns None, writes
\* no file, and leaves batch_count, batch_files and total_records (and the
\* rest of the writer) unchanged, whatever the storage would do with a write.
C31_FlushEmptyIsNoOp ==
    [][\A wr \in WriteOutcomes :
          (WFlushBatch(wr) /\ w.current_batch = <<>>)
          => /\ wLast'.kind = "none"
             /\ wDisk' = wDisk
             /\ w'.batch_count = w.batch_count
             /\ w'.batch_files = w.batch_files
             /\ w'.total_records = w.total_records
             /\ w' = w
             /\ wManifests' = wManifests]_vars

\* flush_batch returned None on a writer that had written a batch before and
\* whose buffer is empty
C31_Witness ==
    /\ wLast.op = "flush_batch"
    /\ wLast.kind = "none"
    /\ w.current_batch = <<>>
    /\ w.total_records >= 2
    /\ w.batch_count >= 1
    /\ Len(wDisk) >= 1

\* a flush_batch call whose write the storage does not complete
FlushFailureSurfaces ==
    \A wr \in WriteOutcomes \ {"stored"} :
        (WFlushBatch(wr) /\ w.current_batch # <<>>)
        => /\ wLast'.kind = "OutputError"
           /\ w'.batch_count = w.batch_count + 1
           /\ w'.current_batch = w.current_batch
           /\ w'.batch_files = w.batch_files
           /\ Len(wDisk') <= Len(wDisk) + 1
           /\ \A i \in 1..Len(wDisk') : i > Len(wDisk) => ~wDisk'[i].complete
           /\ SubSeq(wDisk', 1, Len(wDisk)) = wDisk

\* a finalize call whose flush or whose manifest write the storage refuses
FinalizeFailureSurfaces ==
    \A wr \in WriteOutcomes, okM \in BOOLEAN :
        (WFinalize(wr, okM) /\ ~((wr = "stored" \/ w.current_batch = <<>>) /\ okM))
        => /\ wLast'.kind = "OutputError"
           /\ wManifests' = wManifests
           /\ w'.batch_count = w.batch_count + (IF w.current_batch = <<>> THEN 0 ELSE 1)
           /\ Len(wDisk') <= Len(wDisk) + 1
           /\ (wr # "stored" /\ w.current_batch # <<>>)
              => /\ w'.current_batch = w.current_batch
                 /\ w'.batch_files = w.batch_files
           /\ (wr = "stored" /\ w.current_batch # <<>>)
              => /\ w'.current_batch = <<>>
                 /\ Len(w'.batch_files) = Len(w.batch_files) + 1

\* C32 -- A storage failure during flush_batch, or during the manifest write
\* of finalize, reaches the caller as OutputError after exactly one write
\* attempt: the flush takes one sequence number, keeps the buffer, lists no
\* file and leaves at most the one partial file of that attempt; finalize
\* writes no manifest, and its flush is tried once.
C32_StorageFailureSurfaces ==
    [][FlushFailureSurfaces /\ FinalizeFailureSurfaces]_vars

\* a flush failed, and later a finalize flushed the buffer and failed on the
\* manifest
C32_Witness ==
    /\ wLast.op = "finalize"
    /\ wLast.kind = "OutputError"
    /\ wFaults = 2
    /\ w.current_batch = <<>>
    /\ Len(w.batch_files) = 1
    /\ w.batch_count = 2
    /\ wManifests = <<>>

(***************************************************************************)
(* Properties of the checkpoints of fetch_ads                              *)
(***************************************************************************)
\* the items this run has yielded since its last cursor save (since the
\* start of the stream before the first)
YieldedSinceSave == Len(hist.yields) - hist.saved_at

\* the step is the code of fetch_ads after a yield
ResumeStep == \E okSave \in BOOLEAN : RResume(okSave)

\* the step saved the cursor
CursorSaved == hist'.saved_at # hist.saved_at

\* C33 -- Periodic checkpointing in fetch_ads: when the generator is resumed
\* after a yield and checkpoint_interval items have been yielded since the
\* previous save, it saves the cursor of the current page (if the page has
\* one), and at no other time; the save adds exactly the number of items
\* yielded since the previous save to records_processed; when every page
\* carries an `after` cursor no more than checkpoint_interval items are
\* yielded between two consecutive saves.
C33_PeriodicCheckpoint ==
    /\ [](EveryPageHasAfter => YieldedSinceSave <= config.checkpoint_interval)
    /\ [](/\ pc \in {"request", "yield", "page_end", "final_checkpoint"}
             => coll.records_since_checkpoint = YieldedSinceSave
          /\ pc = "resume" => coll.records_since_checkpoint = YieldedSinceSave - 1)
    /\ [][ResumeStep
          => /\ CursorSaved
                => /\ YieldedSinceSave >= config.checkpoint_interval
                   /\ EveryPageHasAfter => YieldedSinceSave = config.checkpoint_interval
                   /\ get_cursor(ckFile') = AfterOf(src.pages, fa.page)
                   /\ RecordsProcessed(ckFile')
                        = RecordsProcessed(ckFile) + YieldedSinceSave
                   /\ hist'.saved_at = Len(hist.yields)
             /\ (YieldedSinceSave >= config.checkpoint_interval
                   /\ Truthy(AfterOf(src.pages, fa.page)) /\ exc' = "none")
                => CursorSaved
             /\ ~CursorSaved => ckFile' = ckFile]_vars
    /\ [][~ResumeStep => (~CursorSaved \/ hist'.saved_at = 0)]_vars

\* with interval 2, the second save of a run added two more items to
\* records_processed after four items were yielded
C33_Witness ==
    /\ config.checkpoint_interval = 2
    /\ session.no = "first"
    /\ hist.saves = 2
    /\ hist.saved_at = 4
    /\ Len(hist.yields) = 4
    /\ RecordsProcessed(ckFile) = 4
    /\ pc \in {"yield", "page_end"}

\* checkpoint["status"], None without a checkpoint or without the key
StatusOf(f) == DictGet(load(f).data, "status", PyNone)

MarkedCompleted(f) == StatusOf(f) = PyStr("completed")

\* the stream of this run has yielded every item of a page that has no
\* paging.next (or no cursor to go on with)
ReachedEndOfPagination ==
    /\ fa.page_count >= 1
    /\ fa.idx = PageAt(src.pages, fa.page).n
    /\ ~(PageAt(src.pages, fa.page).next /\ Truthy(AfterOf(src.pages, fa.page)))

FinalCheckpointStep == \E okSave \in BOOLEAN : RFinalCheckpoint(okSave)

\* what holds of the final progress save: it alone changes the status of
\* the checkpoint, and it is made exactly when the stream reached the end of
\* pagination, then once and unconditionally (whatever the interval and
\* whether or not the last page has a cursor); in a run that starts without
\* a checkpoint the status is completed only after the stream reached the end
FinalSaveAtEndOfPagination ==
    /\ [](pc = "final_checkpoint" <=> (ReachedEndOfPagination /\ pc \notin
            {"resume", "page_end", "finalize", "ended", "crashed"}))
    /\ [](pc = "page_end" /\ ReachedEndOfPagination => ENABLED RPageEnd)
    /\ [][(pc = "page_end" /\ ReachedEndOfPagination /\ RPageEnd)
            => pc' = "final_checkpoint"]_vars
    /\ [][(FinalCheckpointStep /\ exc' = "none")
            => /\ MarkedCompleted(ckFile')
               /\ RecordsProcessed(ckFile') = fa.total_ads
               /\ get_cursor(ckFile') = get_cursor(ckFile)
               /\ hist'.saves = hist.saves + 1
               /\ pc' = "finalize"]_vars
    /\ [][StatusOf(ckFile') # StatusOf(ckFile)
            => FinalCheckpointStep /\ MarkedCompleted(ckFile')]_vars
    /\ [](session.no = "first" /\ MarkedCompleted(ckFile) => ReachedEndOfPagination)
    /\ []((session.no = "first" /\ pc = "ended")
            => (MarkedCompleted(ckFile) <=> (exc = "none" /\ ~stats.interrupted)))

\* C34 -- The checkpoint is marked completed exactly when the
\* stream reached the end of pagination: only the final progress save
\* writes a checkpoint with the completed status, so a stream that ends by
\* interruption or by an error never writes it.
C34_CompletedOnlyAtEnd ==
    [][(ckFile' # ckFile /\ MarkedCompleted(ckFile')) => FinalCheckpointStep]_vars

\* the dict load() returns, {} for "load() or {}"
LoadedOrEmpty(f) == IF load(f).kind = "data" THEN load(f).data ELSE EmptyDict

\* a save() begun by save_cursor returns in this step
SaveCursorReturns ==
    /\ ckPc = "writing"
    /\ ckPc' = "idle"
    /\ ckLast'.op = "save_cursor"
    /\ ckLast'.kind = "ok"

\* the keys a save_cursor call names: cursor, records_processed and those of
\* additional_data; save() stamps last_update and platform on every write
NamedBySaveCursor(call) ==
    {"cursor", "records_processed", "last_update", "platform"} \cup DOMAIN call[3]

\* the stored checkpoint after save_cursor calls on an absent checkpoint
CursorSavesAccumulate ==
    (ckHist.only_cursor_saves /\ ckHist.calls.count > 0) =>
        /\ load(ckFile).kind = "data"
        /\ DictGet(load(ckFile).data, "cursor", PyNone) = ckHist.calls.last
        /\ DictGet(load(ckFile).data, "records_processed", PyNone)
               = PyInt(ckHist.calls.sum)

\* a save_cursor call that returns keeps what it does not name
CursorSaveKeepsOtherKeys ==
    SaveCursorReturns =>
        LET old == LoadedOrEmpty(ckHist.prev)
            new == LoadedOrEmpty(ckFile')
        IN /\ DictGet(new, "cursor", PyNone) = ckHist.call[1]
           /\ DictGet(new, "records_processed", PyNone)
                  = PyInt(IntOf(DictGet(old, "records_processed", PyInt(0)))
                          + ckHist.call[2])
           /\ \A k \in DOMAIN old \ NamedBySaveCursor(ckHist.call) :
                  k \in DOMAIN new /\ new[k] = old[k]
           /\ \A k \in DOMAIN ckHist.call[3] :
                  k \in DOMAIN new /\ new[k] = ckHist.call[3][k]

\* C35 -- save_cursor is load-merge-save: after any sequence of save_cursor
\* calls that starts from an absent checkpoint the stored cursor is the last
\* cursor passed and records_processed is the sum of the records_in_batch
\* values passed, and every call keeps the keys of the existing checkpoint it
\* does not name.
C35_SaveCursorMerges ==
    []CursorSavesAccumulate /\ [][CursorSaveKeepsOtherKeys]_vars

\* two save_cursor calls on an absent checkpoint, the first with additional
\* data and the second without, with different cursors and batch sizes
C35_Witness ==
    /\ ckPc = "idle"
    /\ ckHist.only_cursor_saves
    /\ ckHist.calls = [count |-> 2, last |-> PyStr("c1"), sum |-> 3]
    /\ ckHist.call[3] = EmptyDict
    /\ DictGet(LoadedOrEmpty(ckFile), "records_processed", PyNone) = PyInt(3)
    /\ DictGet(LoadedOrEmpty(ckFile), "status", PyNone) = PyStr("completed")

\* a save() begun by update_progress returns in this step
UpdateProgressReturns ==
    /\ ckPc = "writing"
    /\ ckPc' = "idle"
    /\ ckLast'.op = "update_progress"
    /\ ckLast'.kind = "ok"

\* C36 -- update_progress sets records_processed to the given value and
\* leaves the stored cursor, and every other existing key that its additional
\* data do not name, as they were (save() stamps last_update and platform).
C36_UpdateProgressKeepsCursor ==
    [][UpdateProgressReturns =>
        LET old == LoadedOrEmpty(ckHist.prev)
            new == LoadedOrEmpty(ckFile')
        IN /\ DictGet(new, "records_processed", PyNone) = PyInt(ckHist.call[1])
           /\ ("cursor" \in DOMAIN new) = ("cursor" \in DOMAIN old)
           /\ DictGet(new, "cursor", PyNone) = DictGet(old, "cursor", PyNone)
           /\ \A k \in DOMAIN old \ ({"records_processed", "last_update", "platform"}
                                      \cup DOMAIN ckHist.call[2]) :
                  k \in DOMAIN new /\ new[k] = old[k]
           /\ \A k \in DOMAIN ckHist.call[2] :
                  k \in DOMAIN new /\ new[k] = ckHist.call[2][k]]_vars

\* update_progress returned on a checkpoint that held a cursor, another count
\* and a key the call did not name
C36_Witness ==
    /\ ckPc = "idle"
    /\ ckLast.op = "update_progress"
    /\ ckLast.kind = "ok"
    /\ ckHist.saved
    /\ ckHist.call[2] = EmptyDict
    /\ DictGet(LoadedOrEmpty(ckHist.prev), "cursor", PyNone) = PyStr("c2")
    /\ DictGet(LoadedOrEmpty(ckHist.prev), "records_processed", PyNone) = PyInt(2)
    /\ DictGet(LoadedOrEmpty(ckHist.prev), "pages_processed", PyNone) = PyInt(1)
    /\ DictGet(LoadedOrEmpty(ckFile), "cursor", PyNone) = PyStr("c2")
    /\ DictGet(LoadedOrEmpty(ckFile), "records_processed", PyNone) = PyInt(3)

(***************************************************************************)
(* Properties of run()'s counters                                          *)
(***************************************************************************)
\* between two iterations of run()'s loop
AtIterationBoundary == pc = "loop"

\* C37 -- Counter invariant of run(): at every iteration boundary
\* records_fetched = records_valid + records_invalid, and the sample of
\* validation errors holds min(records_invalid, 100) entries, never more
\* than 100.
C37_CounterInvariant ==
    /\ AtIterationBoundary =>
           /\ stats.records_fetched = stats.records_valid + stats.records_invalid
           /\ stats.validation_errors = Min(stats.records_invalid, 100)
    /\ stats.validation_errors <= 100

\* more than a hundred invalid items among valid ones
C37_Witness ==
    /\ AtIterationBoundary
    /\ stats.records_invalid = 101
    /\ stats.records_valid = 1
    /\ stats.validation_errors = 100

\* the manifest finalize() returned to the running process, which run() stores
\* as stats["manifest"]
ManifestOfRun ==
    wManifests[CHOOSE i \in 1..Len(wManifests) :
                   wManifests[i].extraction_id = w.extraction_id]

\* run() is over, it wrote output, and no call of the writer raised
EndedWithoutWriterFailure ==
    /\ pc = "ended"
    /\ ~config.dry_run
    /\ exc # "OutputError"
    /\ hist.raised # "OutputError in finalize"

\* C38 -- In a run that is no dry run and in which no writer operation
\* fails, the manifest that finalize() returns into the summary has
\* total_records equal to the summary's records_valid, whether the run ended
\* with the end of the stream, by an interruption, or by an exception of the
\* adapter.
C38_ManifestCountsValidRecords ==
    EndedWithoutWriterFailure =>
        /\ stats.manifest
        /\ ManifestsOfRun = 1
        /\ ManifestOfRun.total_records = stats.records_valid

\* a run that met an invalid item, wrote two valid ones and then ended by an
\* exception of the adapter
C38_Witness ==
    /\ EndedWithoutWriterFailure
    /\ exc = "APIError"
    /\ stats.records_invalid = 1
    /\ stats.records_valid >= 2
    /\ ManifestOfRun.total_records = stats.records_valid

\* the number of items the save of this step adds to records_processed
CountedBySave == RecordsProcessed(ckFile') - RecordsProcessed(ckFile)

\* run()'s loop body has been through every item the generator has yielded:
\* each is counted, judged valid or invalid, and handed to write_record if
\* it is valid and the run writes output
ConsumerHasSeen(items) ==
    /\ stats.records_fetched = Len(items)
    /\ stats.records_valid = Len(ValidOf(items))
    /\ stats.records_invalid = Len(InvalidOf(items))
    /\ hist.write_calls = (IF config.dry_run THEN <<>> ELSE ValidOf(items))

\* a cursor save counts the items run() consumed since the previous save
CursorSaveBehindConsumer ==
    (ResumeStep /\ ckFile' # ckFile) =>
        /\ CountedBySave = YieldedSinceSave
        /\ CountedBySave >= 1
        /\ ConsumerHasSeen(hist.yields)

\* the final progress save counts the items run() consumed in this run
FinalSaveBehindConsumer ==
    (FinalCheckpointStep /\ ckFile' # ckFile) =>
        /\ RecordsProcessed(ckFile') = Len(hist.yields)
        /\ ConsumerHasSeen(hist.yields)

\* C39 -- Checkpoints never run ahead of the consumer: fetch_ads saves only
\* after control has come back from a yield, so at every checkpoint save each
\* item the save counts in records_processed has been through run()'s loop
\* body: transformed, validated and, if valid and no dry run, handed to
\* write_record.
C39_CheckpointBehindConsumer ==
    [][CursorSaveBehindConsumer /\ FinalSaveBehindConsumer]_vars

\* a cursor save that counted two items, one of them invalid and one handed
\* to write_record
C39_Witness ==
    /\ pc \in {"yield", "page_end"}
    /\ hist.saves = 1
    /\ hist.saved_at = 2
    /\ Len(hist.yields) = 2
    /\ RecordsProcessed(ckFile) = 2
    /\ stats.records_invalid = 1
    /\ Len(hist.write_calls) = 1
    /\ session.no = "first"

====
